---- MODULE Spec2Model ----
(***************************************************************************)
(* llm-benchmark core: the persistent store (Models, Criteria, Runs,       *)
(* RunModels, RunCriteria, Responses, ScoringSessions, Scores), the run    *)
(* executor (createRun / executeRun), the scoring session service and the  *)
(* results aggregator (computeResults).                                    *)
(*                                                                         *)
(* executeRun is an async function: every `await` in it is a point where   *)
(* other handlers of the single-threaded event loop may run, so it is      *)
(* modelled as one action per run-to-completion segment.                   *)
(***************************************************************************)
EXTENDS Integers, Sequences, FiniteSets, TLC

\* ------------------------------------------------------------------ bounds
MaxModels == 2      \* model rows ever added (uuid k is the k-th one issued)
MaxCriteria == 2    \* criterion rows ever added
MaxRuns == 1        \* createRun calls
MaxRunsScored == 2  \* createRun calls where scores may cross runs
MaxReps == 2        \* requestsPerModel ranges over 1..MaxReps
MaxExecs == 2       \* executeRun invocations
MaxSessions == 2    \* scoring sessions created
MaxScores == 3      \* Score rows recorded
MaxCalls == 4       \* adapter calls that the started invocations may issue in all
MaxHandles == 4     \* Database handles created by openDatabase
MaxCryptoCalls == 3 \* encrypt / decrypt calls
MaxTicks == 2       \* milliseconds that pass on the clock

\* SQL NULL / JS null
NULL == "<NULL>"

\* Inputs
ModelProviders == {"OpenAI", "bogus"}
Prompts == {"Say hi"}
Contents == {"Hello!"}
\* A numeric column holds <<n>>, or <<>> for NULL (an absent field of a result)
NullNumber == <<>>
TokenCounts == {NullNumber, <<5>>}   \* result.tokensUsed ?? null
Latencies == {NullNumber, <<10>>}    \* result.latencyMs ?? null
ErrorTexts == {"API timeout"}
\* err.message of a rejection: an Error built without a message has the message ""
AdapterErrorTexts == ErrorTexts \cup {""}
CriterionInputs == {[maxScore |-> 10, weight |-> 1], [maxScore |-> 5, weight |-> 2]}
\* addCriterion and updateCriterion store any number: a maxScore of 0 too
DegenerateCriteria == {[maxScore |-> 0, weight |-> 1]}
ScoreValues == {0, 8}
\* Provider strings: the three names in several letter cases, and others
ProviderNames ==
    {"openai", "OpenAI", "OPENAI", "anthropic", "Anthropic", "ollama", "Ollama",
     "cohere", "bogus", "open ai", ""}
\* What a judge leaves in a score field: nothing, no number, a negative number, a
\* number within every maxScore in use, a number above every maxScore in use
ScoreFieldTexts == {"", "abc", "-3", "4", "12"}
ResponseIds == (1..MaxExecs) \X (1..MaxModels) \X (1..MaxReps)
RunIdInputs == 0..MaxRuns   \* 0 is an id no run ever gets
SessionIdInputs == 0..MaxSessions   \* 0 is an id no session ever gets

\* ------------------------------------------------------------ pure helpers
Range(s) == {s[i] : i \in DOMAIN s}

RECURSIVE SeqsUpTo(_, _)
SeqsUpTo(S, n) ==
    IF n = 0 THEN {<<>>}
    ELSE LET shorter == SeqsUpTo(S, n - 1)
         IN  shorter \cup {Append(s, x) : s \in {t \in shorter : Len(t) = n - 1}, x \in S}

\* All orders in which the rows of a set can be returned by a SELECT without ORDER BY
Orders(S) == {s \in SeqsUpTo(S, Cardinality(S)) : Len(s) = Cardinality(S) /\ Range(s) = S}

Restrict(f, D) == [x \in D |-> f[x]]

\* String.prototype.toLowerCase on the provider names in use
toLowerCase(s) ==
    CASE s = "OpenAI"    -> "openai"
      [] s = "OPENAI"    -> "openai"
      [] s = "Anthropic" -> "anthropic"
      [] s = "Ollama"    -> "ollama"
      [] OTHER           -> s

\* Variant of getAdapter that switches on the provider string as given
getAdapterExact(provider) ==
    CASE provider = "openai"    -> [ok |-> TRUE, adapter |-> "OpenAIAdapter"]
      [] provider = "anthropic" -> [ok |-> TRUE, adapter |-> "AnthropicAdapter"]
      [] provider = "ollama"    -> [ok |-> TRUE, adapter |-> "OllamaAdapter"]
      [] OTHER                  -> [ok |-> FALSE, error |-> <<"Unknown provider: ", provider>>]

\* getAdapter(provider): the adapter class, or the thrown Error's message
getAdapter(provider) ==
    LET p == toLowerCase(provider)
    IN  CASE p = "openai"    -> [ok |-> TRUE, adapter |-> "OpenAIAdapter"]
          [] p = "anthropic" -> [ok |-> TRUE, adapter |-> "AnthropicAdapter"]
          [] p = "ollama"    -> [ok |-> TRUE, adapter |-> "OllamaAdapter"]
          [] OTHER           -> [ok |-> FALSE, error |-> <<"Unknown provider: ", provider>>]

\* ------------------------------------------------------------------- state
VARIABLES
    Models,          \* Models table: id -> [provider]
    Criteria,        \* Criteria table: id -> [maxScore, weight]
    Runs,            \* Runs table: id -> [prompt, requestsPerModel]
    RunModels,       \* link rows <<run_id, model_id>>
    RunCriteria,     \* link rows <<run_id, criteria_id>>
    Responses,       \* set of Response rows
    ScoringSessions, \* id -> [runId]
    Scores,          \* sequence of Score rows, in insertion (rowid) order
    uuid,            \* how many ids of each kind uuidv4() has issued
    execs,           \* executeRun invocations, in the order they were called
    returned,        \* what the last step gave its caller, when it was a read of results
    scoring,         \* the scoring flow of the client (web page or terminal screen)
    database,        \* db/database.ts: `let db` and the handles it has created
    encryption       \* security/encryption.ts: cachedKey, its calls, and the keychain

vars == <<Models, Criteria, Runs, RunModels, RunCriteria, Responses,
          ScoringSessions, Scores, uuid, execs, returned, scoring,
          database, encryption>>

\* No results were returned by the last step; no scoring flow is open
NoReturn == [op |-> "none"]
NoScoring == [flow |-> "none"]

store == <<Models, Criteria, Runs, RunModels, RunCriteria, Responses,
           ScoringSessions, Scores>>

\* Module-level state of the process outside the store's tables
proc == <<database, encryption>>

\* resolveDbPath: the file in the home directory when no path is given
DefaultDbPath == "~/.llm-benchmark/benchmark.db"
resolveDbPath(dbPath) == IF dbPath = NULL THEN DefaultDbPath ELSE dbPath

Init ==
    /\ Models = <<>>
    /\ Criteria = <<>>
    /\ Runs = <<>>
    /\ RunModels = {}
    /\ RunCriteria = {}
    /\ Responses = {}
    /\ ScoringSessions = <<>>
    /\ Scores = <<>>
    /\ uuid = [model |-> 0, criterion |-> 0, run |-> 0, session |-> 0, score |-> 0,
               now |-> 0]
    /\ execs = <<>>
    /\ returned = NoReturn
    /\ scoring = NoScoring
    \* the application has called openDatabase() at startup: db is handle 1
    /\ database = [db |-> 1, handles |-> <<[path |-> DefaultDbPath, open |-> TRUE]>>]
    \* no master key is stored in the keychain or cached, no call is running
    /\ encryption = [keychain |-> 0, cachedKey |-> 0, keys |-> 0, calls |-> <<>>,
                     encrypted |-> {}]

\* A step of the store or of the executor: it returns no results and the scoring
\* flow does not take part in it
ClientUntouched == returned' = NoReturn /\ UNCHANGED <<scoring, proc>>

\* ------------------------------------------------------ configuration store
\* addModel: INSERT INTO Models with a fresh uuid
AddModel(provider) ==
    /\ uuid.model < MaxModels
    /\ uuid' = [uuid EXCEPT !.model = @ + 1]
    /\ Models' = Models @@ ((uuid.model + 1) :> [provider |-> provider])
    /\ UNCHANGED <<Criteria, Runs, RunModels, RunCriteria, Responses,
                   ScoringSessions, Scores, execs>>
    /\ ClientUntouched

\* updateModel: throws when the row is missing, else UPDATE Models SET provider = ?
UpdateModel(id, provider) ==
    /\ id \in DOMAIN Models
    /\ Models[id].provider # provider
    /\ Models' = [Models EXCEPT ![id].provider = provider]
    /\ UNCHANGED <<Criteria, Runs, RunModels, RunCriteria, Responses,
                   ScoringSessions, Scores, uuid, execs>>
    /\ ClientUntouched

\* Rows that go with a deleted Responses row (Scores.response_id ON DELETE CASCADE)
ScoresKeeping(keptResponseIds, keptCriteria) ==
    SelectSeq(Scores, LAMBDA sc : sc.responseId \in keptResponseIds
                                  /\ sc.criterionId \in keptCriteria)

\* deleteModel: DELETE FROM Models; foreign_keys = ON cascades to RunModels,
\* Responses and, through Responses, Scores
DeleteModel(id) ==
    /\ id \in DOMAIN Models
    /\ Models' = Restrict(Models, DOMAIN Models \ {id})
    /\ RunModels' = {l \in RunModels : l[2] # id}
    /\ Responses' = {r \in Responses : r.modelId # id}
    /\ Scores' = ScoresKeeping({r.id : r \in Responses'}, DOMAIN Criteria)
    /\ UNCHANGED <<Criteria, Runs, RunCriteria, ScoringSessions, uuid, execs>>
    /\ ClientUntouched

\* addCriterion: INSERT INTO Criteria with a fresh uuid
AddCriterion(maxScore, weight) ==
    /\ uuid.criterion < MaxCriteria
    /\ uuid' = [uuid EXCEPT !.criterion = @ + 1]
    /\ Criteria' = Criteria @@ ((uuid.criterion + 1) :>
                                   [maxScore |-> maxScore, weight |-> weight])
    /\ UNCHANGED <<Models, Runs, RunModels, RunCriteria, Responses,
                   ScoringSessions, Scores, execs>>
    /\ ClientUntouched

\* updateCriterion: returns null when the row is missing, else UPDATE Criteria
UpdateCriterion(id, maxScore, weight) ==
    /\ id \in DOMAIN Criteria
    /\ Criteria[id] # [maxScore |-> maxScore, weight |-> weight]
    /\ Criteria' = [Criteria EXCEPT ![id] = [maxScore |-> maxScore, weight |-> weight]]
    /\ UNCHANGED <<Models, Runs, RunModels, RunCriteria, Responses,
                   ScoringSessions, Scores, uuid, execs>>
    /\ ClientUntouched

\* deleteCriterion: DELETE FROM Criteria; cascades to RunCriteria and Scores
DeleteCriterion(id) ==
    /\ id \in DOMAIN Criteria
    /\ Criteria' = Restrict(Criteria, DOMAIN Criteria \ {id})
    /\ RunCriteria' = {l \in RunCriteria : l[2] # id}
    /\ Scores' = ScoresKeeping({r.id : r \in Responses}, DOMAIN Criteria')
    /\ UNCHANGED <<Models, Runs, RunModels, Responses, ScoringSessions, uuid, execs>>
    /\ ClientUntouched

\* ------------------------------------------------------------- run service
\* Mutant: the loop over the ids stops after its first INSERT
InsertLinksFirstOnly(links, runId, ids, referenced) ==
    IF ids = <<>> THEN [rows |-> links, threw |-> FALSE]
    ELSE IF Head(ids) \notin referenced \/ <<runId, Head(ids)>> \in links
         THEN [rows |-> links, threw |-> TRUE]
         ELSE [rows |-> links \cup {<<runId, Head(ids)>>}, threw |-> FALSE]

\* The loop `for (const x of ids) insert.run(runId, x)`: each INSERT fails (and the
\* loop is left by the exception) when x is no row of the referenced table
\* (FOREIGN KEY) or the link exists already (PRIMARY KEY); earlier rows stay.
RECURSIVE InsertLinks(_, _, _, _)
InsertLinks(links, runId, ids, referenced) ==
    IF ids = <<>> THEN [rows |-> links, threw |-> FALSE]
    ELSE IF Head(ids) \notin referenced \/ <<runId, Head(ids)>> \in links
         THEN [rows |-> links, threw |-> TRUE]
         ELSE InsertLinks(links \cup {<<runId, Head(ids)>>}, runId, Tail(ids), referenced)

RunInputs ==
    [prompt : Prompts, requestsPerModel : 1..MaxReps,
     modelIds : SeqsUpTo(1..MaxModels, MaxModels),
     criteriaIds : SeqsUpTo(1..MaxCriteria, MaxCriteria)]

\* Whether createRun(input) returns (rather than throws) in the current store
CreateRunReturns(input) ==
    LET id == uuid.run + 1
    IN  /\ ~InsertLinks(RunModels, id, input.modelIds, DOMAIN Models).threw
        /\ ~InsertLinks(RunCriteria, id, input.criteriaIds, DOMAIN Criteria).threw

\* createRun: one synchronous handler, no transaction around its INSERTs
createRun(input) ==
    LET id == uuid.run + 1
        rm == InsertLinks(RunModels, id, input.modelIds, DOMAIN Models)
        rc == IF rm.threw THEN [rows |-> RunCriteria, threw |-> TRUE]
              ELSE InsertLinks(RunCriteria, id, input.criteriaIds, DOMAIN Criteria)
    IN  /\ uuid' = [uuid EXCEPT !.run = id]
        /\ Runs' = Runs @@ (id :> [prompt |-> input.prompt,
                                   requestsPerModel |-> input.requestsPerModel])
        /\ RunModels' = rm.rows
        /\ RunCriteria' = rc.rows
        /\ UNCHANGED <<Models, Criteria, Responses, ScoringSessions, Scores, execs>>
        /\ ClientUntouched

\* createRun, called at most MaxRuns times
CreateRun(input) == uuid.run < MaxRuns /\ createRun(input)

\* The error of an invocation that has not thrown (messages are tuples of their parts)
NoError == <<>>

\* The Error thrown for a missing run: `Run ${runId} not found`
RunNotFound(runId) == <<"Run ", runId, " not found">>

\* SqliteError of an INSERT whose run_id / model_id references no row
ForeignKeyFailed == <<"FOREIGN KEY constraint failed">>

\* SELECT m.* FROM Models m JOIN RunModels rm ON rm.model_id = m.id WHERE rm.run_id = ?
RunModelIds(runId) == {l[2] : l \in {x \in RunModels : x[1] = runId}} \cap DOMAIN Models

\* SELECT c.* FROM Criteria c JOIN RunCriteria rc ON rc.criteria_id = c.id WHERE rc.run_id = ?
RunCriteriaIds(runId) == {l[2] : l \in {x \in RunCriteria : x[1] = runId}} \cap DOMAIN Criteria

\* An executeRun invocation that has loaded runRow and modelRows (rows are copies:
\* later writes to Models do not change them)
NewExec(runId, modelRows) ==
    [run |-> runId, pc |-> "loop", error |-> NoError,
     requests |-> Runs[runId].requestsPerModel, prompt |-> Runs[runId].prompt,
     models |-> modelRows, idx |-> 0,
     apiKey |-> [i \in DOMAIN modelRows |-> NULL],
     inflight |-> [i \in DOMAIN modelRows |-> 0],
     persisted |-> [i \in DOMAIN modelRows |-> 0],
     lost |-> [i \in DOMAIN modelRows |-> 0]]

\* Mutant: the missing run is not noticed and the invocation resolves
NotFoundIgnored(runId) ==
    [run |-> runId, pc |-> "resolved", error |-> NoError,
     requests |-> 0, prompt |-> NULL, models |-> <<>>, idx |-> 0,
     apiKey |-> <<>>, inflight |-> <<>>, persisted |-> <<>>, lost |-> <<>>]

\* An executeRun invocation that threw at `if (!runRow)`
NotFoundExec(runId) ==
    [run |-> runId, pc |-> "rejected", error |-> RunNotFound(runId),
     requests |-> 0, prompt |-> NULL, models |-> <<>>, idx |-> 0,
     apiKey |-> <<>>, inflight |-> <<>>, persisted |-> <<>>, lost |-> <<>>]

\* Head of the `for (const modelRow of modelRows)` loop at position k, up to the next
\* await: past the last model it reaches `await Promise.all(tasks)`; getAdapter may
\* throw, and the async function then rejects; else getDecryptedApiKey is called
\* and awaited (idx counts the calls of getDecryptedApiKey).
LoopHead(x, k) ==
    IF k > Len(x.models) THEN [x EXCEPT !.pc = "awaitAll"]
    ELSE LET a == getAdapter(x.models[k].provider)
         IN  IF a.ok THEN [x EXCEPT !.pc = "awaitKey", !.idx = k]
             ELSE [x EXCEPT !.pc = "rejected", !.error = a.error]

\* Adapter calls that invocation x issues if no getAdapter throws
CallsOf(x) == x.requests * Len(x.models)

RECURSIVE SumCalls(_)
SumCalls(xs) == IF xs = <<>> THEN 0 ELSE CallsOf(Head(xs)) + SumCalls(Tail(xs))

\* executeRun(runId), from the call to its first await
ExecuteRunStart(runId) ==
    /\ Len(execs) < MaxExecs
    /\ runId \in DOMAIN Runs =>
          SumCalls(execs) + Runs[runId].requestsPerModel * Cardinality(RunModelIds(runId))
              <= MaxCalls
    /\ IF runId \notin DOMAIN Runs
       THEN execs' = Append(execs, NotFoundExec(runId))
       ELSE \E order \in Orders(RunModelIds(runId)) :
              execs' = Append(execs,
                  LoopHead(NewExec(runId, [i \in DOMAIN order |->
                      [id |-> order[i], provider |-> Models[order[i]].provider]]), 1))
    /\ UNCHANGED <<store, uuid>>
    /\ ClientUntouched

\* What getDecryptedApiKey(model.id) can settle with: null when the model row is
\* gone, else the plaintext, or a rejection (keychain or decipher failure)
KeyOutcomes(modelId) ==
    IF modelId \in DOMAIN Models THEN {"plaintext", "throws"} ELSE {"null"}

\* Variant: a rejection of getDecryptedApiKey is not caught and executeRun rejects
KeyResolvedRethrows(e, outcome) ==
    /\ e \in DOMAIN execs
    /\ execs[e].pc = "awaitKey"
    /\ outcome \in KeyOutcomes(execs[e].models[execs[e].idx].id)
    /\ LET x == execs[e]
           k == x.idx
           dispatched == [x EXCEPT
               !.apiKey[k] = IF outcome = "plaintext" THEN "sk" ELSE "undefined",
               !.inflight[k] = x.requests]
       IN  execs' = [execs EXCEPT ![e] =
                        IF outcome = "throws"
                        THEN [x EXCEPT !.pc = "rejected", !.error = <<"keychain">>]
                        ELSE LoopHead(dispatched, k + 1)]
    /\ UNCHANGED <<store, uuid>>
    /\ ClientUntouched

\* `await getDecryptedApiKey` settles: apiKey is set, the repetition loop pushes
\* requests_per_model tasks (each runs to its `await adapter.complete`), and the
\* model loop goes on to its next position
KeyResolved(e, outcome) ==
    /\ e \in DOMAIN execs
    /\ execs[e].pc = "awaitKey"
    /\ outcome \in KeyOutcomes(execs[e].models[execs[e].idx].id)
    /\ LET x == execs[e]
           k == x.idx
           dispatched == [x EXCEPT
               !.apiKey[k] = IF outcome = "plaintext" THEN "sk" ELSE "undefined",
               !.inflight[k] = x.requests]
       IN  execs' = [execs EXCEPT ![e] = LoopHead(dispatched, k + 1)]
    /\ UNCHANGED <<store, uuid>>
    /\ ClientUntouched

\* One task of model position k of invocation e leaves its await and runs its
\* INSERT. The INSERT of either branch fails when the model row is gone (FOREIGN
\* KEY): from the try branch control enters the catch branch, whose INSERT fails
\* too, and the task's promise rejects.
\* (the try branch stores result.tokensUsed ?? null and result.latencyMs ?? null,
\* the catch branch NULL for both).
InsertResponse(e, k, content, tokensUsed, latencyMs, errorMsg) ==
    /\ e \in DOMAIN execs
    /\ k \in DOMAIN execs[e].models
    /\ execs[e].inflight[k] > 0
    /\ LET x == execs[e]
           row == [id |-> <<e, x.models[k].id, x.persisted[k] + 1>>,
                   runId |-> x.run, modelId |-> x.models[k].id,
                   content |-> content, tokensUsed |-> tokensUsed,
                   latencyMs |-> latencyMs, errorMsg |-> errorMsg]
       IN  IF x.models[k].id \in DOMAIN Models /\ x.run \in DOMAIN Runs
           THEN /\ Responses' = Responses \cup {row}
                /\ execs' = [execs EXCEPT ![e].inflight[k] = @ - 1,
                                          ![e].persisted[k] = @ + 1]
           ELSE /\ Responses' = Responses
                /\ execs' = [execs EXCEPT ![e].inflight[k] = @ - 1,
                                          ![e].lost[k] = @ + 1]
    /\ UNCHANGED <<Models, Criteria, Runs, RunModels, RunCriteria,
                   ScoringSessions, Scores, uuid>>
    /\ ClientUntouched

\* A task whose adapter result, if any, has neither tokensUsed nor latencyMs
TaskSettles(e, k, content, errorMsg) ==
    InsertResponse(e, k, content, NullNumber, NullNumber, errorMsg)

\* adapter.complete resolved with {content, tokensUsed?, latencyMs?}
CallSucceedsWithUsage(e, k, content, tokensUsed, latencyMs) ==
    InsertResponse(e, k, content, tokensUsed, latencyMs, NULL)

\* Mutant: the try branch stores no content
CallSucceedsWithoutContent(e, k, content) == TaskSettles(e, k, NULL, NULL)

\* adapter.complete resolved: the try branch inserts content, error_msg NULL
CallSucceeds(e, k, content) == TaskSettles(e, k, content, NULL)

\* Mutant: a failed call cancels the calls of its model that are still in flight
CallFailsCancelsSiblings(e, k, message) ==
    /\ e \in DOMAIN execs
    /\ k \in DOMAIN execs[e].models
    /\ execs[e].inflight[k] > 0
    /\ execs[e].models[k].id \in DOMAIN Models
    /\ Responses' = Responses \cup
           {[id |-> <<e, execs[e].models[k].id, execs[e].persisted[k] + 1>>,
             runId |-> execs[e].run, modelId |-> execs[e].models[k].id,
             content |-> NULL, tokensUsed |-> NullNumber, latencyMs |-> NullNumber,
             errorMsg |-> message]}
    /\ execs' = [execs EXCEPT ![e].inflight[k] = 0, ![e].persisted[k] = @ + 1]
    /\ UNCHANGED <<Models, Criteria, Runs, RunModels, RunCriteria,
                   ScoringSessions, Scores, uuid>>
    /\ ClientUntouched

\* Mutant: the catch branch records the failure and rethrows it
CallFailsRethrows(e, k, message) ==
    /\ e \in DOMAIN execs
    /\ k \in DOMAIN execs[e].models
    /\ execs[e].inflight[k] > 0
    /\ execs[e].models[k].id \in DOMAIN Models
    /\ Responses' = Responses \cup
           {[id |-> <<e, execs[e].models[k].id, execs[e].persisted[k] + 1>>,
             runId |-> execs[e].run, modelId |-> execs[e].models[k].id,
             content |-> NULL, tokensUsed |-> NullNumber, latencyMs |-> NullNumber,
             errorMsg |-> message]}
    /\ execs' = [execs EXCEPT ![e].inflight[k] = @ - 1, ![e].persisted[k] = @ + 1,
                              ![e].lost[k] = @ + 1]
    /\ UNCHANGED <<Models, Criteria, Runs, RunModels, RunCriteria,
                   ScoringSessions, Scores, uuid>>
    /\ ClientUntouched

\* adapter.complete rejected: the catch branch inserts content NULL, error_msg
CallFails(e, k, message) == TaskSettles(e, k, NULL, message)

\* `await Promise.all(tasks)`: rejects once a task has rejected, resolves once all
\* have fulfilled
PromiseAll(x) ==
    IF \E k \in DOMAIN x.models : x.lost[k] > 0
    THEN [x EXCEPT !.pc = "rejected", !.error = ForeignKeyFailed]
    ELSE [x EXCEPT !.pc = "resolved"]

Settle(e) ==
    /\ e \in DOMAIN execs
    /\ execs[e].pc = "awaitAll"
    /\ \/ \E k \in DOMAIN execs[e].models : execs[e].lost[k] > 0
       \/ \A k \in DOMAIN execs[e].models : execs[e].inflight[k] = 0
    /\ execs' = [execs EXCEPT ![e] = PromiseAll(execs[e])]
    /\ UNCHANGED <<store, uuid>>
    /\ ClientUntouched

\* ---------------------------------------------------------- observations
\* Response rows of a run, and of one model of a run
ResponsesOf(runId) == {r \in Responses : r.runId = runId}
ResponsesOfModel(runId, modelId) == {r \in ResponsesOf(runId) : r.modelId = modelId}

\* getRun(runId): the ids of the models and criteria it returns, and the responses
getRun(runId) ==
    [models |-> RunModelIds(runId),
     criteria |-> RunCriteriaIds(runId),
     responses |-> ResponsesOf(runId)]

RECURSIVE SumSeq(_)
SumSeq(s) == IF s = <<>> THEN 0 ELSE Head(s) + SumSeq(Tail(s))

\* Calls of adapter.complete that invocation x has issued, and those not yet settled
IssuedCalls(x) == SumSeq(x.inflight) + SumSeq(x.persisted) + SumSeq(x.lost)
InFlight(x) == SumSeq(x.inflight)

\* Invocations of executeRun that found the run
Executions(runId) ==
    {e \in DOMAIN execs : execs[e].run = runId /\ execs[e].error # RunNotFound(runId)}

\* ------------------------------------------------------------ scoring
\* createScoringSession(runId): one INSERT INTO ScoringSessions
CreateScoringSession(runId) ==
    LET id == uuid.session + 1
    IN  /\ uuid.session < MaxSessions
        /\ uuid' = [uuid EXCEPT !.session = id]
        /\ ScoringSessions' = ScoringSessions @@ (id :> [runId |-> runId, createdAt |-> uuid.now])
        /\ UNCHANGED <<Models, Criteria, Runs, RunModels, RunCriteria, Responses,
                       Scores, execs>>
        /\ ClientUntouched

\* Variant: Scores.session_id declared without REFERENCES, as in a table
\* created by hand
NoForeignKey(sessionId) == TRUE

\* Scores.session_id REFERENCES ScoringSessions(id), enforced like the other
\* references of the schema (foreign_keys = ON)
SessionForeignKey(sessionId) == sessionId \in DOMAIN ScoringSessions

\* Variant: INSERT OR REPLACE keyed by (response_id, criterion_id)
ScoreResponseReplacingAnySession(sessionId, responseId, criterionId, score) ==
    /\ uuid.score < MaxScores
    /\ responseId \in {r.id : r \in Responses}
    /\ criterionId \in DOMAIN Criteria
    /\ uuid' = [uuid EXCEPT !.score = @ + 1]
    /\ Scores' = Append(SelectSeq(Scores, LAMBDA sc :
                            ~(sc.responseId = responseId /\ sc.criterionId = criterionId)),
                        [id |-> uuid.score + 1, sessionId |-> sessionId,
                         responseId |-> responseId,
                         criterionId |-> criterionId, score |-> score,
                         createdAt |-> uuid.now])
    /\ UNCHANGED <<Models, Criteria, Runs, RunModels, RunCriteria, Responses,
                   ScoringSessions, execs>>
    /\ ClientUntouched

\* Variant: INSERT OR REPLACE keyed by (session_id, response_id, criterion_id)
ScoreResponseReplacing(sessionId, responseId, criterionId, score) ==
    /\ uuid.score < MaxScores
    /\ responseId \in {r.id : r \in Responses}
    /\ criterionId \in DOMAIN Criteria
    /\ uuid' = [uuid EXCEPT !.score = @ + 1]
    /\ Scores' = Append(SelectSeq(Scores, LAMBDA sc :
                            ~(/\ sc.sessionId = sessionId
                              /\ sc.responseId = responseId
                              /\ sc.criterionId = criterionId)),
                        [id |-> uuid.score + 1, sessionId |-> sessionId,
                         responseId |-> responseId,
                         criterionId |-> criterionId, score |-> score,
                         createdAt |-> uuid.now])
    /\ UNCHANGED <<Models, Criteria, Runs, RunModels, RunCriteria, Responses,
                   ScoringSessions, execs>>
    /\ ClientUntouched

\* The references of a Scores row are to existing rows
ScoreReferencesHold(sessionId, responseId, criterionId) ==
    /\ SessionForeignKey(sessionId)
    /\ responseId \in {r.id : r \in Responses}
    /\ criterionId \in DOMAIN Criteria

\* scoreResponse(input): one INSERT INTO Scores; session_id, response_id and
\* criterion_id must reference existing rows
ScoreResponse(sessionId, responseId, criterionId, score) ==
    /\ uuid.score < MaxScores
    /\ ScoreReferencesHold(sessionId, responseId, criterionId)
    /\ uuid' = [uuid EXCEPT !.score = @ + 1]
    /\ Scores' = Append(Scores, [id |-> uuid.score + 1, sessionId |-> sessionId,
                                 responseId |-> responseId,
                                 criterionId |-> criterionId, score |-> score,
                         createdAt |-> uuid.now])
    /\ UNCHANGED <<Models, Criteria, Runs, RunModels, RunCriteria, Responses,
                   ScoringSessions, execs>>
    /\ ClientUntouched

\* scoreResponse(input) whose INSERT violates a reference: the statement throws
\* and no row is written
ScoreResponseThrows(sessionId, responseId, criterionId, score) ==
    /\ ~ScoreReferencesHold(sessionId, responseId, criterionId)
    /\ returned' = [op |-> "scoreResponse", sessionId |-> sessionId,
                    error |-> ForeignKeyFailed]
    /\ UNCHANGED <<store, uuid, execs, scoring, proc>>

\* SELECT * FROM Scores WHERE session_id = ?: the session's rows, in the order
\* of their insertion
sessionScoreRows(sessionId) == SelectSeq(Scores, LAMBDA sc : sc.sessionId = sessionId)

\* Date.now() advances by a millisecond
Tick ==
    /\ uuid.now < MaxTicks
    /\ uuid' = [uuid EXCEPT !.now = @ + 1]
    /\ UNCHANGED <<store, execs, scoring, returned, proc>>

\* ORDER BY created_at: the rows in every order that the sort key admits; rows
\* of equal created_at come in any order
orderBy(rows, direction) ==
    {s \in Orders(rows) :
        \A i, j \in DOMAIN s :
            i < j => IF direction = "ASC" THEN s[i].createdAt <= s[j].createdAt
                                          ELSE s[i].createdAt >= s[j].createdAt}

\* getSessionScores(sessionId): ... WHERE session_id = ? ORDER BY created_at ASC
GetSessionScores(sessionId) ==
    /\ \E out \in orderBy(Range(sessionScoreRows(sessionId)), "ASC") :
           returned' = [op |-> "getSessionScores", sessionId |-> sessionId, out |-> out]
    /\ UNCHANGED <<store, uuid, execs, scoring, proc>>

\* rowToSession of the ScoringSessions rows of a run
sessionRows(runId) ==
    {[id |-> s, runId |-> runId, createdAt |-> ScoringSessions[s].createdAt] :
        s \in {t \in DOMAIN ScoringSessions : ScoringSessions[t].runId = runId}}

\* listScoringSessions(runId): ... WHERE run_id = ? ORDER BY created_at DESC
ListScoringSessions(runId) ==
    /\ \E out \in orderBy(sessionRows(runId), "DESC") :
           returned' = [op |-> "listScoringSessions", runId |-> runId, out |-> out]
    /\ UNCHANGED <<store, uuid, execs, scoring, proc>>

\* Numbers of the results are exact fractions <<numerator, denominator>> in lowest
\* terms; the non-negative IEEE 754 specials that a division by 0 produces are
\* Infinity = <<1, 0>> (x / 0 with x > 0) and NaN = <<0, 0>> (0 / 0)
Infinity == <<1, 0>>
NaN == <<0, 0>>

RECURSIVE GCD(_, _)
GCD(a, b) == IF b = 0 THEN a ELSE GCD(b, a % b)

Frac(n, d) ==
    IF n = 0 THEN (IF d = 0 THEN NaN ELSE <<0, 1>>)
    ELSE <<n \div GCD(n, d), d \div GCD(n, d)>>
FracAdd(p, q) ==
    IF p = Infinity /\ q = Infinity THEN Infinity
    ELSE Frac(p[1] * q[2] + q[1] * p[2], p[2] * q[2])
FracTimes(p, n) == Frac(p[1] * n, p[2])
FracOver(p, n) == Frac(p[1], p[2] * n)
FracLess(p, q) == p[1] * q[2] < q[1] * p[2]

\* The keys of a Map in insertion order: the elements of s by first appearance
RECURSIVE KeysInOrder(_)
KeysInOrder(s) ==
    IF s = <<>> THEN <<>>
    ELSE LET front == KeysInOrder(SubSeq(s, 1, Len(s) - 1))
         IN  IF s[Len(s)] \in Range(front) THEN front ELSE Append(front, s[Len(s)])

ResponseById(id) == CHOOSE r \in Responses : r.id = id

\* Variant: the SELECT without its WHERE sc.session_id = ?
scoreRowsOfAnySession(runId, sessionId) ==
    LET joined == SelectSeq(Scores, LAMBDA sc :
                      /\ \E r \in Responses : /\ r.id = sc.responseId
                                              /\ r.runId = runId
                                              /\ r.modelId \in DOMAIN Models
                      /\ sc.criterionId \in DOMAIN Criteria)
    IN  [i \in DOMAIN joined |->
            [score_value  |-> joined[i].score,
             response_id  |-> joined[i].responseId,
             model_id     |-> ResponseById(joined[i].responseId).modelId,
             criterion_id |-> joined[i].criterionId,
             max_score    |-> Criteria[joined[i].criterionId].maxScore,
             weight       |-> Criteria[joined[i].criterionId].weight]]

\* The SELECT of computeResults: Scores of the session joined with the Responses
\* of the run, their Models and the Criteria rows as they are now
scoreRows(runId, sessionId) ==
    LET joined == SelectSeq(Scores, LAMBDA sc :
                      /\ sc.sessionId = sessionId
                      /\ \E r \in Responses : /\ r.id = sc.responseId
                                              /\ r.runId = runId
                                              /\ r.modelId \in DOMAIN Models
                      /\ sc.criterionId \in DOMAIN Criteria)
    IN  [i \in DOMAIN joined |->
            [score_value  |-> joined[i].score,
             response_id  |-> joined[i].responseId,
             model_id     |-> ResponseById(joined[i].responseId).modelId,
             criterion_id |-> joined[i].criterionId,
             max_score    |-> Criteria[joined[i].criterionId].maxScore,
             weight       |-> Criteria[joined[i].criterionId].weight]]

\* Variant: the weight of the criterion is not applied
criterionScoreUnweighted(rows, criterionId) ==
    LET mine == SelectSeq(rows, LAMBDA row : row.criterion_id = criterionId)
        scores == [i \in DOMAIN mine |-> mine[i].score_value]
        avgRawScore == Frac(SumSeq(scores), Len(scores))
        avgNormalized == FracOver(FracTimes(avgRawScore, 100), mine[1].max_score)
    IN  [criterionId   |-> criterionId,
         weight        |-> mine[1].weight,
         maxScore      |-> mine[1].max_score,
         avgRawScore   |-> avgRawScore,
         avgNormalized |-> avgNormalized,
         weightedAvg   |-> avgNormalized]

\* One entry of criteriaBreakdown: normalize, average, weight
criterionScore(rows, criterionId) ==
    LET mine == SelectSeq(rows, LAMBDA row : row.criterion_id = criterionId)
        scores == [i \in DOMAIN mine |-> mine[i].score_value]
        avgRawScore == Frac(SumSeq(scores), Len(scores))
        avgNormalized == FracOver(FracTimes(avgRawScore, 100), mine[1].max_score)
    IN  [criterionId   |-> criterionId,
         weight        |-> mine[1].weight,
         maxScore      |-> mine[1].max_score,
         avgRawScore   |-> avgRawScore,
         avgNormalized |-> avgNormalized,
         weightedAvg   |-> FracTimes(avgNormalized, mine[1].weight)]

RECURSIVE SumWeighted(_)
SumWeighted(breakdown) ==
    IF breakdown = <<>> THEN <<0, 1>>
    ELSE FracAdd(SumWeighted(SubSeq(breakdown, 1, Len(breakdown) - 1)),
                 breakdown[Len(breakdown)].weightedAvg)

\* Ids of Responses rows (uuids) as the index of the primary key orders them
IdBefore(a, b) ==
    \/ a[1] < b[1]
    \/ a[1] = b[1] /\ a[2] < b[2]
    \/ a[1] = b[1] /\ a[2] = b[2] /\ a[3] < b[3]

\* SELECT id, content, tokens_used, latency_ms FROM Responses WHERE id IN (...):
\* every row with one of the ids once, by the index on id
responseRows(respIds) ==
    LET found == {r.id : r \in Responses} \cap respIds
        ids == CHOOSE o \in Orders(found) :
                   \A i, j \in DOMAIN o : i < j => IdBefore(o[i], o[j])
    IN  [i \in DOMAIN ids |-> ResponseById(ids[i])]

\* One element of `responses`: content ?? "", tokensUsed and latencyMs spread
\* into the object only when the column is not NULL
responseOut(r) ==
    [responseId |-> r.id, content |-> IF r.content = NULL THEN "" ELSE r.content]
        @@ (IF r.tokensUsed # NullNumber THEN [tokensUsed |-> r.tokensUsed[1]] ELSE <<>>)
        @@ (IF r.latencyMs # NullNumber THEN [latencyMs |-> r.latencyMs[1]] ELSE <<>>)

\* Variant: one element per selected score row instead of one per response id
scoredResponsesPerRow(mine) ==
    [i \in DOMAIN mine |-> responseOut(ResponseById(mine[i].response_id))]

\* The `responses` of a model: the ids collected in the model's Set while
\* grouping its score rows, then the rows SELECTed for these ids
scoredResponses(mine) ==
    LET respIds == {mine[i].response_id : i \in DOMAIN mine}
        rows == responseRows(respIds)
    IN  [i \in DOMAIN rows |-> responseOut(rows[i])]

\* One ModelResult
modelResult(rows, modelId) ==
    LET mine == SelectSeq(rows, LAMBDA row : row.model_id = modelId)
        criteria == KeysInOrder([i \in DOMAIN mine |-> mine[i].criterion_id])
        criteriaBreakdown == [k \in DOMAIN criteria |-> criterionScore(mine, criteria[k])]
    IN  [modelId           |-> modelId,
         totalScore        |-> SumWeighted(criteriaBreakdown),
         criteriaBreakdown |-> criteriaBreakdown,
         responses         |-> scoredResponses(mine)]

\* Array.prototype.sort((a, b) => b.totalScore - a.totalScore): stable, descending
RECURSIVE sortByTotalScore(_)
sortByTotalScore(results) ==
    IF results = <<>> THEN <<>>
    ELSE LET first == Head(results)
             rest == sortByTotalScore(Tail(results))
         IN  SelectSeq(rest, LAMBDA x : FracLess(first.totalScore, x.totalScore))
             \o <<first>>
             \o SelectSeq(rest, LAMBDA x : ~FracLess(first.totalScore, x.totalScore))

\* Variant: one ModelResult per selected row instead of one per Map key
rankedModelsPerRow(rows) ==
    sortByTotalScore([k \in DOMAIN rows |-> modelResult(rows, rows[k].model_id)])

\* The grouping loop, the per-model results and the final sort of computeResults
rankedModels(rows) ==
    LET models == KeysInOrder([i \in DOMAIN rows |-> rows[i].model_id])
    IN  sortByTotalScore([k \in DOMAIN models |-> modelResult(rows, models[k])])

\* Variant: a run that is missing is ranked as a run without scores
computeResultsOfAnyRun(runId, sessionId) ==
    [ok           |-> TRUE,
     runId        |-> runId,
     sessionId    |-> sessionId,
     prompt       |-> IF runId \in DOMAIN Runs THEN Runs[runId].prompt ELSE NULL,
     rankedModels |-> rankedModels(scoreRows(runId, sessionId))]

\* Variant: the order of the ranking alternates from one call to the next
computeResultsAlternating(runId, sessionId) ==
    LET ranked == rankedModels(scoreRows(runId, sessionId))
    IN  IF runId \notin DOMAIN Runs THEN [ok |-> FALSE, error |-> RunNotFound(runId)]
        ELSE [ok           |-> TRUE,
              runId        |-> runId,
              sessionId    |-> sessionId,
              prompt       |-> Runs[runId].prompt,
              rankedModels |-> IF returned.op = "computeResults" /\ ~returned.again
                               THEN [k \in DOMAIN ranked |-> ranked[Len(ranked) + 1 - k]]
                               ELSE ranked]

\* computeResults(runId, sessionId)
computeResults(runId, sessionId) ==
    IF runId \notin DOMAIN Runs THEN [ok |-> FALSE, error |-> RunNotFound(runId)]
    ELSE [ok           |-> TRUE,
          runId        |-> runId,
          sessionId    |-> sessionId,
          prompt       |-> Runs[runId].prompt,
          rankedModels |-> rankedModels(scoreRows(runId, sessionId))]

\* A caller of computeResults keeps what it got, and whether it had asked the
\* same before with no write to the store in between
ComputeResults(runId, sessionId) ==
    /\ returned' = [op        |-> "computeResults",
                    runId     |-> runId,
                    sessionId |-> sessionId,
                    out       |-> computeResults(runId, sessionId),
                    again     |-> /\ returned.op = "computeResults"
                                  /\ returned.runId = runId
                                  /\ returned.sessionId = sessionId]
    /\ UNCHANGED <<store, uuid, execs, scoring, proc>>

\* ------------------------------------------------------------ scoring flows
\* responses.filter((r) => !r.errorMsg): null and "" are the falsy values
scoreable(responses) == {r \in responses : r.errorMsg = NULL \/ r.errorMsg = ""}

\* Math.floor(Math.random() * (i + 1)) for each position i of an array of n
\* elements (positions from 1 here)
RandomIndices(n) == {js \in [1..n -> 1..n] : \A i \in 1..n : js[i] <= i}

\* Variant: arr[i] = arr[j] without the exchange
overwrite(arr, i, j) == [arr EXCEPT ![i] = arr[j]]

\* [arr[i], arr[j]] = [arr[j], arr[i]]
swap(arr, i, j) == [arr EXCEPT ![i] = arr[j], ![j] = arr[i]]

\* The Fisher-Yates loop: for (let i = arr.length - 1; i > 0; i--)
RECURSIVE shuffle(_, _, _)
shuffle(arr, i, js) ==
    IF i <= 1 THEN arr ELSE shuffle(swap(arr, i, js[i]), i - 1, js)

\* What getRun returns to a scoring flow: the criteria rows are copies, in the
\* order of a SELECT without ORDER BY
RunWithDetails(runId, criteriaIds) ==
    [id        |-> runId,
     criteria  |-> [k \in DOMAIN criteriaIds |->
                      [id |-> criteriaIds[k], maxScore |-> Criteria[criteriaIds[k]].maxScore]],
     responses |-> getRun(runId).responses]

\* A flow that shows its first response and asks for its first criterion
ScoringFlow(ui, run, sessionId, responses) ==
    [flow         |-> "scoring",
     ui           |-> ui,
     run          |-> run,
     sessionId    |-> sessionId,
     responses    |-> responses,
     idx          |-> 1,
     criterionIdx |-> 1,
     submitting   |-> FALSE]

\* TUI, key 's' on the detail screen of a run: one synchronous handler
StartScoringTui(runId) ==
    /\ runId \in DOMAIN Runs
    /\ scoring.flow # "loading"
    /\ scoring.flow = "scoring" => ~scoring.submitting
    /\ \E criteriaIds \in Orders(getRun(runId).criteria) :
         LET fullRun == RunWithDetails(runId, criteriaIds)
             validResponses == scoreable(fullRun.responses)
         IN  IF validResponses = {}
             THEN /\ scoring' = [flow |-> "error", error |-> "No scoreable responses."]
                  /\ UNCHANGED <<store, uuid>>
             ELSE IF fullRun.criteria = <<>>
             THEN /\ scoring' = [flow |-> "error", error |-> "No criteria for this run."]
                  /\ UNCHANGED <<store, uuid>>
             ELSE /\ uuid.session < MaxSessions
                  /\ \E arr \in Orders(validResponses),
                        js \in RandomIndices(Cardinality(validResponses)) :
                         scoring' = ScoringFlow("tui", fullRun, uuid.session + 1,
                                                shuffle(arr, Len(arr), js))
                  /\ uuid' = [uuid EXCEPT !.session = @ + 1]
                  /\ ScoringSessions' = ScoringSessions @@ (uuid.session + 1 :> [runId |-> runId, createdAt |-> uuid.now])
                  /\ UNCHANGED <<Models, Criteria, Runs, RunModels, RunCriteria, Responses,
                                 Scores>>
    /\ returned' = NoReturn
    /\ UNCHANGED <<execs, proc>>

\* Web ScorePage, first server action of the Promise.all: getRunForScoring(id)
ScorePageGetRun(runId) ==
    /\ runId \in DOMAIN Runs
    /\ scoring.flow # "loading"
    /\ scoring.flow = "scoring" => ~scoring.submitting
    /\ \E criteriaIds \in Orders(getRun(runId).criteria) :
           scoring' = [flow |-> "loading", runData |-> RunWithDetails(runId, criteriaIds)]
    /\ UNCHANGED <<store, uuid, execs, returned, proc>>

\* Web ScorePage, second server action, startScoringSession(id), and the
\* continuation of the await: filter, shuffle, setState
ScorePageStartSession ==
    /\ scoring.flow = "loading"
    /\ uuid.session < MaxSessions
    /\ LET runData == scoring.runData
           valid == scoreable(runData.responses)
       IN  \E arr \in Orders(valid), js \in RandomIndices(Cardinality(valid)) :
               scoring' = ScoringFlow("web", runData, uuid.session + 1,
                                      shuffle(arr, Len(arr), js))
    /\ uuid' = [uuid EXCEPT !.session = @ + 1]
    /\ ScoringSessions' = ScoringSessions @@ (uuid.session + 1 :> [runId |-> scoring.runData.id, createdAt |-> uuid.now])
    /\ UNCHANGED <<Models, Criteria, Runs, RunModels, RunCriteria, Responses, Scores,
                   execs, proc>>
    /\ returned' = NoReturn

\* parseFloat on the field texts in use, as a number <<n, 1>>; NaN when the
\* text starts with no number
parseFloat(text) ==
    CASE text = "0"  -> <<0, 1>>
      [] text = "4"  -> <<4, 1>>
      [] text = "12" -> <<12, 1>>
      [] text = "-3" -> <<0 - 3, 1>>
      [] OTHER       -> NaN

\* Math.min(a, b), Math.max(a, b) on numbers
MathMin(a, b) == IF a < b THEN a ELSE b
MathMax(a, b) == IF a > b THEN a ELSE b

\* isNaN(val) ? 0 : Math.max(0, Math.min(val, criterion.maxScore))
clamped(val, maxScore) == IF val = NaN THEN 0 ELSE MathMax(0, MathMin(val[1], maxScore))

\* The flow after the last criterion of a response: the next response, or done
NextResponse(f) ==
    IF f.idx + 1 <= Len(f.responses)
    THEN [f EXCEPT !.idx = @ + 1, !.criterionIdx = 1, !.submitting = FALSE]
    ELSE [f EXCEPT !.flow = "done", !.submitting = FALSE]

\* TUI handleScoringValueSubmit(value): clamp, scoreResponse, advance; one
\* synchronous handler
HandleScoringValueSubmit(value) ==
    /\ scoring.flow = "scoring"
    /\ scoring.ui = "tui"
    /\ uuid.score < MaxScores
    /\ LET criterion == scoring.run.criteria[scoring.criterionIdx]
           response == scoring.responses[scoring.idx]
       IN  /\ response.id \in {r.id : r \in Responses}
           /\ criterion.id \in DOMAIN Criteria
           /\ Scores' = Append(Scores,
                  [id |-> uuid.score + 1, sessionId |-> scoring.sessionId,
                   responseId |-> response.id, criterionId |-> criterion.id,
                   score |-> clamped(parseFloat(value), criterion.maxScore),
                   createdAt |-> uuid.now])
           /\ scoring' = IF scoring.criterionIdx + 1 <= Len(scoring.run.criteria)
                         THEN [scoring EXCEPT !.criterionIdx = @ + 1]
                         ELSE NextResponse(scoring)
    /\ uuid' = [uuid EXCEPT !.score = @ + 1]
    /\ returned' = NoReturn
    /\ UNCHANGED <<Models, Criteria, Runs, RunModels, RunCriteria, Responses,
                   ScoringSessions, execs, proc>>

\* Variant: the Next button is not disabled while the saves of a click run
HandleNextWhileSaving ==
    /\ scoring.flow = "scoring"
    /\ scoring.ui = "web"
    /\ scoring.idx <= Len(scoring.responses)
    /\ scoring' = IF scoring.run.criteria = <<>> THEN NextResponse(scoring)
                  ELSE [scoring EXCEPT !.submitting = TRUE, !.criterionIdx = 1]
    /\ UNCHANGED <<store, uuid, execs, returned, proc>>

\* Web handleNext, up to its first `await submitScore`; with no criterion the
\* loop has no iteration
HandleNext ==
    /\ scoring.flow = "scoring"
    /\ scoring.ui = "web"
    /\ ~scoring.submitting
    /\ scoring.idx <= Len(scoring.responses)
    /\ scoring' = IF scoring.run.criteria = <<>> THEN NextResponse(scoring)
                  ELSE [scoring EXCEPT !.submitting = TRUE, !.criterionIdx = 1]
    /\ UNCHANGED <<store, uuid, execs, returned, proc>>

\* One `await submitScore(...)` of handleNext and what follows it up to the
\* next await. The field texts are those of the moment handleNext was called;
\* nothing reads one before its iteration, so each is drawn here (NULL: the
\* field was never edited, and `?? "0"` applies)
SubmitScore(text) ==
    /\ scoring.flow = "scoring"
    /\ scoring.ui = "web"
    /\ scoring.submitting
    /\ uuid.score < MaxScores
    /\ LET criterion == scoring.run.criteria[scoring.criterionIdx]
           resp == scoring.responses[scoring.idx]
           raw == IF text = NULL THEN "0" ELSE text
       IN  /\ resp.id \in {r.id : r \in Responses}
           /\ criterion.id \in DOMAIN Criteria
           /\ Scores' = Append(Scores,
                  [id |-> uuid.score + 1, sessionId |-> scoring.sessionId,
                   responseId |-> resp.id, criterionId |-> criterion.id,
                   score |-> clamped(parseFloat(raw), criterion.maxScore),
                   createdAt |-> uuid.now])
           /\ scoring' = IF scoring.criterionIdx + 1 <= Len(scoring.run.criteria)
                         THEN [scoring EXCEPT !.criterionIdx = @ + 1]
                         ELSE NextResponse(scoring)
    /\ uuid' = [uuid EXCEPT !.score = @ + 1]
    /\ returned' = NoReturn
    /\ UNCHANGED <<Models, Criteria, Runs, RunModels, RunCriteria, Responses,
                   ScoringSessions, execs, proc>>

\* A call of getAdapter(provider) by any caller: it returns or throws at once
GetAdapter(provider) ==
    /\ returned' = [op |-> "getAdapter", provider |-> provider, out |-> getAdapter(provider)]
    /\ UNCHANGED <<store, uuid, execs, scoring, proc>>

\* ------------------------------------------------------------ specification
\* Run executor with the model configuration
Next ==
    \/ \E p \in ModelProviders : AddModel(p)
    \/ \E id \in 1..MaxModels, p \in ModelProviders : UpdateModel(id, p)
    \/ \E id \in 1..MaxModels : DeleteModel(id)
    \/ \E input \in RunInputs : CreateRun(input)
    \/ \E runId \in RunIdInputs : ExecuteRunStart(runId)
    \/ \E e \in 1..MaxExecs, o \in {"plaintext", "throws", "null"} : KeyResolved(e, o)
    \/ \E e \in 1..MaxExecs, k \in 1..MaxModels, c \in Contents : CallSucceeds(e, k, c)
    \/ \E e \in 1..MaxExecs, k \in 1..MaxModels, m \in ErrorTexts : CallFails(e, k, m)
    \/ \E e \in 1..MaxExecs : Settle(e)

Spec == Init /\ [][Next]_vars

\* The whole configuration (models and criteria) with a run that its caller
\* executes once
ExecuteRunOnce(runId) == execs = <<>> /\ ExecuteRunStart(runId)

NextConfig ==
    \/ \E p \in ModelProviders : AddModel(p)
    \/ \E id \in 1..MaxModels, p \in ModelProviders : UpdateModel(id, p)
    \/ \E id \in 1..MaxModels : DeleteModel(id)
    \/ \E c \in CriterionInputs : AddCriterion(c.maxScore, c.weight)
    \/ \E id \in 1..MaxCriteria, c \in CriterionInputs :
           UpdateCriterion(id, c.maxScore, c.weight)
    \/ \E id \in 1..MaxCriteria : DeleteCriterion(id)
    \/ \E input \in RunInputs : CreateRun(input)
    \/ \E runId \in RunIdInputs : ExecuteRunOnce(runId)
    \/ \E e \in 1..MaxExecs, o \in {"plaintext", "throws", "null"} : KeyResolved(e, o)
    \/ \E e \in 1..MaxExecs, k \in 1..MaxModels, c \in Contents : CallSucceeds(e, k, c)
    \/ \E e \in 1..MaxExecs, k \in 1..MaxModels, m \in ErrorTexts : CallFails(e, k, m)
    \/ \E e \in 1..MaxExecs : Settle(e)

SpecConfig == Init /\ [][NextConfig]_vars

\* The scoring flows create a session for a run that exists and score in a
\* session that they created
CreateSessionOfRun(runId) == runId \in DOMAIN Runs /\ CreateScoringSession(runId)
ScoreInSession(sessionId, responseId, criterionId, score) ==
    /\ sessionId \in DOMAIN ScoringSessions
    /\ ScoreResponse(sessionId, responseId, criterionId, score)

\* A run of every model and every criterion, one request per model, that is
\* executed once and then scored and ranked while its criteria are edited
Ascending(n) == [k \in 1..n |-> k]
ScoredRunInputs ==
    {input \in RunInputs : /\ input.requestsPerModel = 1
                           /\ input.modelIds = Ascending(MaxModels)
                           /\ input.criteriaIds = Ascending(MaxCriteria)}
ScoredCriteria == CriterionInputs \cup DegenerateCriteria
\* The run forms offer the rows that exist, so the run's links are all stored
CreateScoredRun(input) == CreateRunReturns(input) /\ CreateRun(input)

\* One judge: a single session, opened for the run once it exists
CreateFirstSession(runId) == uuid.session = 0 /\ CreateSessionOfRun(runId)

NextScoring ==
    \/ \E p \in {"OpenAI"} : AddModel(p)
    \/ \E c \in ScoredCriteria : AddCriterion(c.maxScore, c.weight)
    \/ \E id \in 1..MaxCriteria, c \in ScoredCriteria :
           UpdateCriterion(id, c.maxScore, c.weight)
    \/ \E input \in ScoredRunInputs : CreateScoredRun(input)
    \/ \E runId \in RunIdInputs : ExecuteRunOnce(runId)
    \/ \E e \in 1..MaxExecs : KeyResolved(e, "plaintext")
    \/ \E e \in 1..MaxExecs, k \in 1..MaxModels, c \in Contents : CallSucceeds(e, k, c)
    \/ \E e \in 1..MaxExecs : Settle(e)
    \/ \E runId \in 1..MaxRuns : CreateFirstSession(runId)
    \/ \E s \in 1..MaxSessions, id \in ResponseIds, c \in 1..MaxCriteria,
          v \in ScoreValues : ScoreInSession(s, id, c, v)
    \/ \E runId \in RunIdInputs, sessionId \in SessionIdInputs :
           ComputeResults(runId, sessionId)

SpecScoring == Init /\ [][NextScoring]_vars

\* Several judges: sessions of the run, each scoring the run's responses
NextSessions ==
    \/ \E p \in {"OpenAI"} : AddModel(p)
    \/ \E c \in CriterionInputs : AddCriterion(c.maxScore, c.weight)
    \/ \E input \in ScoredRunInputs : CreateScoredRun(input)
    \/ \E runId \in RunIdInputs : ExecuteRunOnce(runId)
    \/ \E e \in 1..MaxExecs : KeyResolved(e, "plaintext")
    \/ \E e \in 1..MaxExecs, k \in 1..MaxModels, c \in Contents : CallSucceeds(e, k, c)
    \/ \E e \in 1..MaxExecs : Settle(e)
    \/ \E runId \in 1..MaxRuns : CreateSessionOfRun(runId)
    \/ \E s \in 1..MaxSessions, id \in ResponseIds, c \in 1..MaxCriteria,
          v \in ScoreValues : ScoreInSession(s, id, c, v)

SpecSessions == Init /\ [][NextSessions]_vars

\* A run of every model, one request each, whose calls succeed or fail, and the
\* scoring flows of the TUI and of the web page opened on it
PoolRunInputs ==
    {input \in RunInputs : /\ input.requestsPerModel = 1
                           /\ input.modelIds = Ascending(MaxModels)}

NextPool ==
    \/ \E p \in {"OpenAI"} : AddModel(p)
    \/ \E c \in CriterionInputs : AddCriterion(c.maxScore, c.weight)
    \/ \E input \in PoolRunInputs : CreateScoredRun(input)
    \/ \E runId \in RunIdInputs : ExecuteRunOnce(runId)
    \/ \E e \in 1..MaxExecs : KeyResolved(e, "plaintext")
    \/ \E e \in 1..MaxExecs, k \in 1..MaxModels, c \in Contents : CallSucceeds(e, k, c)
    \/ \E e \in 1..MaxExecs, k \in 1..MaxModels, m \in AdapterErrorTexts : CallFails(e, k, m)
    \/ \E e \in 1..MaxExecs : Settle(e)
    \/ \E runId \in 1..MaxRuns : StartScoringTui(runId)
    \/ \E runId \in 1..MaxRuns : ScorePageGetRun(runId)
    \/ ScorePageStartSession

SpecPool == Init /\ [][NextPool]_vars

\* The scoring flows of the TUI and of the web page, from their start to the
\* scores they submit, on a run whose calls succeed, while criteria are edited
NextJudging ==
    \/ \E p \in {"OpenAI"} : AddModel(p)
    \/ \E c \in CriterionInputs : AddCriterion(c.maxScore, c.weight)
    \/ \E id \in {1}, c \in CriterionInputs :
           UpdateCriterion(id, c.maxScore, c.weight)
    \/ \E input \in PoolRunInputs : CreateScoredRun(input)
    \/ \E runId \in RunIdInputs : ExecuteRunOnce(runId)
    \/ \E e \in 1..MaxExecs : KeyResolved(e, "plaintext")
    \/ \E e \in 1..MaxExecs, k \in 1..MaxModels, c \in Contents : CallSucceeds(e, k, c)
    \/ \E e \in 1..MaxExecs : Settle(e)
    \/ \E runId \in 1..MaxRuns : StartScoringTui(runId)
    \/ \E runId \in 1..MaxRuns : ScorePageGetRun(runId)
    \/ ScorePageStartSession
    \/ \E value \in ScoreFieldTexts : HandleScoringValueSubmit(value)
    \/ HandleNext
    \/ \E text \in ScoreFieldTexts \cup {NULL} : SubmitScore(text)

SpecJudging == Init /\ [][NextJudging]_vars

\* The adapter registry, called with the provider of configured models and with
\* any other string
NextAdapters ==
    \/ \E p \in ProviderNames : AddModel(p)
    \/ \E provider \in ProviderNames : GetAdapter(provider)

SpecAdapters == Init /\ [][NextAdapters]_vars

\* Runs executed and scored by callers that pass any run id and any session id
NextCausal ==
    \/ \E p \in {"OpenAI"} : AddModel(p)
    \/ AddCriterion(10, 1)
    \/ \E input \in ScoredRunInputs : CreateScoredRun(input)
    \/ \E runId \in RunIdInputs : ExecuteRunOnce(runId)
    \/ \E e \in 1..MaxExecs : KeyResolved(e, "plaintext")
    \/ \E e \in 1..MaxExecs, k \in 1..MaxModels, c \in Contents : CallSucceeds(e, k, c)
    \/ \E e \in 1..MaxExecs : Settle(e)
    \/ \E runId \in 1..MaxRuns : CreateSessionOfRun(runId)
    \/ \E s \in SessionIdInputs, id \in ResponseIds, c \in 1..MaxCriteria :
           ScoreResponse(s, id, c, 8)
    \/ \E s \in SessionIdInputs, id \in ResponseIds, c \in 1..MaxCriteria :
           ScoreResponseThrows(s, id, c, 8)

SpecCausal == Init /\ [][NextCausal]_vars

\* The read accessors of the scoring service, on sessions and scores recorded
\* while the clock advances
NextAccessors ==
    \/ \E p \in {"OpenAI"} : AddModel(p)
    \/ AddCriterion(10, 1)
    \/ \E input \in ScoredRunInputs : CreateScoredRun(input)
    \/ \E runId \in RunIdInputs : ExecuteRunOnce(runId)
    \/ \E e \in 1..MaxExecs : KeyResolved(e, "plaintext")
    \/ \E e \in 1..MaxExecs, k \in 1..MaxModels, c \in Contents : CallSucceeds(e, k, c)
    \/ \E e \in 1..MaxExecs : Settle(e)
    \/ \E runId \in 1..MaxRuns : CreateSessionOfRun(runId)
    \/ \E s \in 1..MaxSessions, id \in ResponseIds : ScoreInSession(s, id, 1, 8)
    \/ Tick
    \/ \E sessionId \in SessionIdInputs : GetSessionScores(sessionId)
    \/ \E runId \in RunIdInputs : ListScoringSessions(runId)

SpecAccessors == Init /\ [][NextAccessors]_vars

\* Two runs of the one configured model with one criterion each, executed one
\* after the other, and one judge whose session is opened for either run and
\* who passes any response and any criterion to scoreResponse
TwoRunInputs ==
    {input \in RunInputs : /\ input.requestsPerModel = 1
                           /\ input.modelIds = <<1>>
                           /\ Len(input.criteriaIds) = 1}
AddOnlyModel(provider) == Models = <<>> /\ AddModel(provider)
CreateRunOfTwo(input) ==
    /\ uuid.run < MaxRunsScored
    /\ CreateRunReturns(input)
    /\ createRun(input)
ExecuteEachRunOnce(runId) ==
    /\ \A e \in DOMAIN execs : execs[e].run # runId /\ execs[e].pc = "resolved"
    /\ ExecuteRunStart(runId)

NextTwoRuns ==
    \/ \E p \in {"OpenAI"} : AddOnlyModel(p)
    \/ AddCriterion(10, 1)
    \/ \E input \in TwoRunInputs : CreateRunOfTwo(input)
    \/ \E runId \in 1..MaxRunsScored : ExecuteEachRunOnce(runId)
    \/ \E e \in 1..MaxExecs : KeyResolved(e, "plaintext")
    \/ \E e \in 1..MaxExecs, k \in 1..MaxModels, c \in Contents : CallSucceeds(e, k, c)
    \/ \E e \in 1..MaxExecs : Settle(e)
    \/ \E runId \in 1..MaxRunsScored : CreateFirstSession(runId)
    \/ \E s \in 1..MaxSessions, id \in ResponseIds, c \in 1..MaxCriteria :
           ScoreInSession(s, id, c, 8)
    \/ \E runId \in 1..MaxRunsScored, sessionId \in 1..MaxSessions :
           ComputeResults(runId, sessionId)

SpecTwoRuns == Init /\ [][NextTwoRuns]_vars

\* A run of every model on one criterion, one request per model, whose calls
\* return with or without usage figures, scored in two sessions and ranked
ResultRunInputs ==
    {input \in RunInputs : /\ input.requestsPerModel = 1
                           /\ input.modelIds = Ascending(MaxModels)
                           /\ input.criteriaIds = <<1>>}

NextResults ==
    \/ \E p \in {"OpenAI"} : AddModel(p)
    \/ AddCriterion(10, 1)
    \/ \E input \in ResultRunInputs : CreateScoredRun(input)
    \/ \E runId \in 1..MaxRuns : ExecuteRunOnce(runId)
    \/ \E e \in 1..MaxExecs : KeyResolved(e, "plaintext")
    \/ \E e \in 1..MaxExecs, k \in 1..MaxModels, c \in Contents,
          t \in TokenCounts, l \in Latencies : CallSucceedsWithUsage(e, k, c, t, l)
    \/ \E e \in 1..MaxExecs : Settle(e)
    \/ \E runId \in 1..MaxRuns : CreateSessionOfRun(runId)
    \/ \E s \in 1..MaxSessions, id \in ResponseIds : ScoreInSession(s, id, 1, 8)
    \/ \E runId \in 1..MaxRuns, sessionId \in 1..MaxSessions :
           ComputeResults(runId, sessionId)

SpecResults == Init /\ [][NextResults]_vars

\* ------------------------------------------------------------ store handle
\* openDatabase(dbPath?): the handle in `db` if there is one; else a new
\* Database on the resolved path, kept in `db` (db stays null when the
\* constructor throws). Handle 0 stands for null.
OpenDatabase(dbPath, outcome) ==
    /\ IF database.db # 0
       THEN /\ returned' = [op |-> "openDatabase", dbPath |-> dbPath, ok |-> TRUE,
                            out |-> database.db]
            /\ UNCHANGED database
       ELSE IF outcome = "throws"
       THEN /\ returned' = [op |-> "openDatabase", dbPath |-> dbPath, ok |-> FALSE,
                            out |-> 0]
            /\ UNCHANGED database
       ELSE /\ Len(database.handles) < MaxHandles
            /\ database' = [db |-> Len(database.handles) + 1,
                            handles |-> Append(database.handles,
                                               [path |-> resolveDbPath(dbPath),
                                                open |-> TRUE])]
            /\ returned' = [op |-> "openDatabase", dbPath |-> dbPath, ok |-> TRUE,
                            out |-> Len(database.handles) + 1]
    /\ UNCHANGED <<store, uuid, execs, scoring, encryption>>

\* The Error of getDatabase without a handle
NotInitialized == <<"Database not initialized. Call openDatabase() first.">>

\* getDatabase()
GetDatabase ==
    /\ returned' = IF database.db = 0
                   THEN [op |-> "getDatabase", ok |-> FALSE, error |-> NotInitialized]
                   ELSE [op |-> "getDatabase", ok |-> TRUE, out |-> database.db]
    /\ UNCHANGED <<store, uuid, execs, scoring, proc>>

\* Variant: closeDatabase forgets the handle without closing it
CloseDatabaseLeaking ==
    /\ database' = [database EXCEPT !.db = 0]
    /\ returned' = [op |-> "closeDatabase"]
    /\ UNCHANGED <<store, uuid, execs, scoring, encryption>>

\* closeDatabase(): if (db) { db.close(); db = null; }
CloseDatabase ==
    /\ database' = IF database.db # 0
                   THEN [db |-> 0,
                         handles |-> [database.handles EXCEPT ![database.db].open = FALSE]]
                   ELSE database
    /\ returned' = [op |-> "closeDatabase"]
    /\ UNCHANGED <<store, uuid, execs, scoring, encryption>>

\* The paths given to openDatabase: none, an in-memory database, a file
DbPaths == {NULL, ":memory:", "test.db"}

NextDatabase ==
    \/ \E dbPath \in DbPaths, outcome \in {"opens", "throws"} :
           OpenDatabase(dbPath, outcome)
    \/ GetDatabase
    \/ CloseDatabase

SpecDatabase == Init /\ [][NextDatabase]_vars

\* ------------------------------------------------------------ encryption
\* Keys are numbered in the order crypto.randomBytes produced them (0: none);
\* a value returned by encrypt is [key, iv, plaintext]: the key it was sealed
\* with, its random IV (numbered by the call) and what it decrypts to.
Plaintexts == {"my-secret-api-key"}
Ciphertexts == [key : 1..MaxCryptoCalls, iv : 1..MaxCryptoCalls, plaintext : Plaintexts]

\* encrypt(arg) or decrypt(arg) from its call to its first await, which is
\* inside getMasterKey unless a key is cached: then getMasterKey returns
\* cachedKey and the caller awaits that
CryptoCall(op, arg) ==
    /\ Len(encryption.calls) < MaxCryptoCalls
    /\ encryption' = [encryption EXCEPT !.calls = Append(@,
           [op |-> op, arg |-> arg, key |-> encryption.cachedKey,
            pc |-> IF encryption.cachedKey # 0 THEN "haveKey" ELSE "getPassword",
            ok |-> FALSE, out |-> NULL])]
    /\ returned' = NoReturn
    /\ UNCHANGED <<store, uuid, execs, scoring, database>>

Encrypt(plaintext) == CryptoCall("encrypt", plaintext)

\* decrypt of a value that encrypt has returned
Decrypt(stored) == stored \in encryption.encrypted /\ CryptoCall("decrypt", stored)

\* `await keytar.getPassword(...)` of call c resolves with the stored password:
\* without one a key is generated and keytar.setPassword is called and awaited,
\* else the password becomes cachedKey and getMasterKey returns it
GetPasswordResolves(c) ==
    /\ c \in DOMAIN encryption.calls
    /\ encryption.calls[c].pc = "getPassword"
    /\ encryption' =
           IF encryption.keychain = 0
           THEN [encryption EXCEPT !.keys = @ + 1,
                                   !.calls[c].key = encryption.keys + 1,
                                   !.calls[c].pc = "setPassword"]
           ELSE [encryption EXCEPT !.cachedKey = encryption.keychain,
                                   !.calls[c].key = encryption.keychain,
                                   !.calls[c].pc = "haveKey"]
    /\ returned' = NoReturn
    /\ UNCHANGED <<store, uuid, execs, scoring, database>>

\* `await keytar.setPassword(...)` of call c resolves: the keychain holds the
\* key of this call, which becomes cachedKey and is returned
SetPasswordResolves(c) ==
    /\ c \in DOMAIN encryption.calls
    /\ encryption.calls[c].pc = "setPassword"
    /\ encryption' = [encryption EXCEPT !.keychain = encryption.calls[c].key,
                                        !.cachedKey = encryption.calls[c].key,
                                        !.calls[c].pc = "haveKey"]
    /\ returned' = NoReturn
    /\ UNCHANGED <<store, uuid, execs, scoring, database>>

\* Call c past `const key = await getMasterKey()`: encrypt seals the plaintext
\* with its key and a new IV; decrypt opens the value with its key, and
\* decipher.final throws when the value was sealed with another key
KeyAwaited(c) ==
    /\ c \in DOMAIN encryption.calls
    /\ encryption.calls[c].pc = "haveKey"
    /\ LET call == encryption.calls[c]
           sealed == [key |-> call.key, iv |-> c, plaintext |-> call.arg]
       IN  encryption' =
               IF call.op = "encrypt"
               THEN [encryption EXCEPT !.encrypted = @ \cup {sealed},
                                       !.calls[c].pc = "done",
                                       !.calls[c].ok = TRUE,
                                       !.calls[c].out = "sealed"]
               ELSE [encryption EXCEPT !.calls[c].pc = "done",
                                       !.calls[c].ok = call.arg.key = call.key,
                                       !.calls[c].out =
                                           IF call.arg.key = call.key
                                           THEN call.arg.plaintext ELSE NULL]
    /\ returned' = NoReturn
    /\ UNCHANGED <<store, uuid, execs, scoring, database>>

\* clearKeyCache()
ClearKeyCache ==
    /\ encryption.cachedKey # 0
    /\ encryption' = [encryption EXCEPT !.cachedKey = 0]
    /\ returned' = NoReturn
    /\ UNCHANGED <<store, uuid, execs, scoring, database>>

NextEncryption ==
    \/ \E plaintext \in Plaintexts : Encrypt(plaintext)
    \/ \E stored \in Ciphertexts : Decrypt(stored)
    \/ \E c \in 1..MaxCryptoCalls : GetPasswordResolves(c)
    \/ \E c \in 1..MaxCryptoCalls : SetPasswordResolves(c)
    \/ \E c \in 1..MaxCryptoCalls : KeyAwaited(c)
    \/ ClearKeyCache

SpecEncryption == Init /\ [][NextEncryption]_vars

\* One executeRun whose continuations the event loop runs once they are ready:
\* the credential lookup settles, every adapter call settles, and the
\* continuation of `await Promise.all(tasks)` runs when the promise has settled
NextLive ==
    \/ \E p \in ModelProviders : AddModel(p)
    \/ \E input \in RunInputs : CreateRun(input)
    \/ \E runId \in RunIdInputs : ExecuteRunOnce(runId)
    \/ \E e \in 1..MaxExecs, o \in {"plaintext", "throws", "null"} : KeyResolved(e, o)
    \/ \E e \in 1..MaxExecs, k \in 1..MaxModels, c \in Contents : CallSucceeds(e, k, c)
    \/ \E e \in 1..MaxExecs, k \in 1..MaxModels, m \in ErrorTexts : CallFails(e, k, m)
    \/ \E e \in 1..MaxExecs : Settle(e)

Fairness ==
    \A e \in 1..MaxExecs :
        /\ WF_vars(\E o \in {"plaintext", "throws", "null"} : KeyResolved(e, o))
        /\ WF_vars(Settle(e))
        /\ \A k \in 1..MaxModels :
               WF_vars(\/ \E c \in Contents : CallSucceeds(e, k, c)
                       \/ \E m \in ErrorTexts : CallFails(e, k, m))

SpecLive == Init /\ [][NextLive]_vars /\ Fairness

\* ------------------------------------------------------------------ claims
\* C1 (as claimed): once an executeRun invocation of a run has resolved, the store
\* holds exactly R rows for each associated model and R x M rows for the run.
C1_ExactlyRxM ==
    \A e \in DOMAIN execs :
        execs[e].pc = "resolved" =>
            LET runId == execs[e].run
                R == Runs[runId].requestsPerModel
            IN  /\ \A m \in getRun(runId).models :
                       Cardinality(ResponsesOfModel(runId, m)) = R
                /\ Cardinality(getRun(runId).responses)
                       = R * Cardinality(getRun(runId).models)

\* C2: every Response row has content NULL exactly when its errorMsg is set.
C2_ContentXorError ==
    \A r \in Responses : (r.content = NULL) <=> (r.errorMsg # NULL)

\* Rows of a succeeded and of a failed call are in the store
C2_Witness ==
    \E r1, r2 \in Responses :
        /\ r1.content # NULL /\ r1.errorMsg = NULL
        /\ r2.content = NULL /\ r2.errorMsg # NULL

\* C3: the failure of one adapter call never affects, cancels or blocks another
\* call: the step that records a failure leaves every other call in flight, keeps
\* every stored row, and does not settle the invocation; and whatever has failed
\* before, a call that settles (while its model row exists) adds exactly its own
\* row with its own outcome.
C3_FailureIsolated ==
    [][/\ \A e \in DOMAIN execs, k \in 1..MaxModels, msg \in ErrorTexts :
              CallFails(e, k, msg) =>
                  /\ \A e2 \in DOMAIN execs : \A k2 \in DOMAIN execs[e2].models :
                         execs'[e2].inflight[k2] =
                             execs[e2].inflight[k2] - (IF <<e2, k2>> = <<e, k>> THEN 1 ELSE 0)
                  /\ \A e2 \in DOMAIN execs :
                         /\ execs'[e2].pc = execs[e2].pc
                         /\ execs'[e2].error = execs[e2].error
                  /\ Responses \subseteq Responses'
       /\ \A e \in DOMAIN execs, k \in 1..MaxModels, c \in Contents \cup {NULL},
             msg \in ErrorTexts \cup {NULL} :
              (TaskSettles(e, k, c, msg) /\ execs[e].models[k].id \in DOMAIN Models) =>
                  \E r \in Responses' \ Responses :
                      /\ Responses' = Responses \cup {r}
                      /\ r.runId = execs[e].run /\ r.modelId = execs[e].models[k].id
                      /\ r.content = c /\ r.errorMsg = msg
      ]_vars

\* A call has failed while another call of the same invocation is in flight, and a
\* call settled after a failure has its own row
C3_Witness ==
    \E e \in DOMAIN execs :
        /\ \E r \in ResponsesOf(execs[e].run) : r.id[1] = e /\ r.errorMsg # NULL
        /\ \E r \in ResponsesOf(execs[e].run) : r.id[1] = e /\ r.errorMsg = NULL
        /\ InFlight(execs[e]) > 0

\* C4 (as claimed): when executeRun has settled, no call it dispatched is still in
\* flight or unpersisted.
C4_SettledAfterAllCalls ==
    \A e \in DOMAIN execs :
        execs[e].pc \in {"resolved", "rejected"} =>
            /\ InFlight(execs[e]) = 0
            /\ SumSeq(execs[e].lost) = 0

\* C5 (as claimed): the only error executeRun throws is that the run does not exist.
C5_OnlyRunNotFound ==
    \A e \in DOMAIN execs :
        execs[e].pc = "rejected" => execs[e].error = RunNotFound(execs[e].run)

\* C5 (amended): executeRun throws only for a missing run, for an associated model
\* whose provider is unknown, or for a Response INSERT the store refused because
\* the model row was deleted meanwhile; it never throws for an adapter failure, and
\* once all its calls have settled and been stored it resolves even if all failed.
C5_ThrowsOnlyForConfigOrStore ==
    /\ [](\A e \in DOMAIN execs :
            execs[e].pc = "rejected" =>
                \/ /\ execs[e].error = RunNotFound(execs[e].run)
                   /\ IssuedCalls(execs[e]) = 0
                \/ \E k \in DOMAIN execs[e].models :
                       /\ ~getAdapter(execs[e].models[k].provider).ok
                       /\ execs[e].error = getAdapter(execs[e].models[k].provider).error
                \/ \E k \in DOMAIN execs[e].models :
                       /\ execs[e].models[k].id \notin DOMAIN Models
                       /\ execs[e].error = ForeignKeyFailed)
    /\ [][\A e \in DOMAIN execs :
            (Settle(e) /\ \A k \in DOMAIN execs[e].models :
                              execs[e].models[k].id \in DOMAIN Models)
                => execs'[e].pc = "resolved"]_vars

\* An invocation has resolved although every one of its calls failed
C5_Witness ==
    \E e \in DOMAIN execs :
        /\ execs[e].pc = "resolved"
        /\ IssuedCalls(execs[e]) >= 2
        /\ \A r \in ResponsesOf(execs[e].run) : r.errorMsg # NULL
        /\ Cardinality(ResponsesOf(execs[e].run)) = IssuedCalls(execs[e])

\* C6: executeRun on an id that is no run fails with 'Run <id> not found', resolves
\* no credential, issues no adapter call and leaves the store unchanged.
C6_NotFoundHasNoEffect ==
    /\ [][\A runId \in RunIdInputs :
            (/\ Len(execs') = Len(execs) + 1
             /\ execs'[Len(execs')].run = runId
             /\ runId \notin DOMAIN Runs)
                => /\ execs'[Len(execs')].pc = "rejected"
                   /\ execs'[Len(execs')].error = RunNotFound(runId)
                   /\ store' = store]_vars
    /\ [](\A e \in DOMAIN execs :
            execs[e].error = RunNotFound(execs[e].run) =>
                /\ execs[e].pc = "rejected"
                /\ execs[e].idx = 0
                /\ IssuedCalls(execs[e]) = 0)

\* executeRun was called with an id that is no run, while the store was not empty
C6_Witness ==
    \E e \in DOMAIN execs :
        /\ execs[e].run \notin DOMAIN Runs
        /\ execs[e].error = RunNotFound(execs[e].run)
        /\ DOMAIN Runs # {} /\ DOMAIN Models # {}

\* C7 (as claimed): the Response rows of a (run, model) never outnumber the run's
\* repetition count, however often executeRun is invoked.
C7_AtMostOncePerSlot ==
    \A runId \in DOMAIN Runs, m \in DOMAIN Models :
        Cardinality(ResponsesOfModel(runId, m)) <= Runs[runId].requestsPerModel

\* C8: a createRun that returns has stored the run with the given prompt and
\* repetition count and exactly the given model and criterion ids, and has executed
\* nothing; until executeRun is first called for it, the run has no Response row.
C8_CreateRunStoresOnly ==
    /\ [][\A input \in RunInputs :
            (CreateRun(input) /\ CreateRunReturns(input)) =>
                \A id \in {uuid.run + 1} :
                    /\ DOMAIN Runs' = DOMAIN Runs \cup {id} /\ id \notin DOMAIN Runs
                    /\ Runs'[id] = [prompt |-> input.prompt,
                                    requestsPerModel |-> input.requestsPerModel]
                    /\ getRun(id).models' = Range(input.modelIds)
                    /\ getRun(id).criteria' = Range(input.criteriaIds)
                    /\ getRun(id).responses' = {}
                    /\ Responses' = Responses /\ execs' = execs]_vars
    /\ [](\A runId \in DOMAIN Runs :
            Executions(runId) = {} => getRun(runId).responses = {})

\* A run with two models and a criterion has been created and not yet executed
C8_Witness ==
    \E runId \in DOMAIN Runs :
        /\ Executions(runId) = {}
        /\ Cardinality(getRun(runId).models) = 2
        /\ Cardinality(getRun(runId).criteria) = 1
        /\ Runs[runId].requestsPerModel = 2

\* C9 (as claimed): no operation changes the models or criteria that getRun and
\* executeRun see for a run that exists.
C9_AssociationsFrozen ==
    [][\A runId \in DOMAIN Runs :
           /\ getRun(runId).models' = getRun(runId).models
           /\ getRun(runId).criteria' = getRun(runId).criteria]_vars

\* C10 (as claimed): an updateCriterion of a criterion of the run that leaves the
\* Scores unchanged leaves the maxScore, weight, avgNormalized, weightedAvg and
\* totalScore that computeResults reports for the run and each session unchanged
\* (after: the results from the rows that the SELECT of computeResults returns
\* once the criterion is updated).
C10_CriterionEditNotRetroactive ==
    [][\A runId \in DOMAIN Runs, sessionId \in DOMAIN ScoringSessions :
           ((\E id \in getRun(runId).criteria, c \in CriterionInputs :
                 UpdateCriterion(id, c.maxScore, c.weight)) /\ Scores' = Scores) =>
               \A before \in {computeResults(runId, sessionId).rankedModels},
                  after \in {rankedModels(scoreRows(runId, sessionId)')} :
                   /\ DOMAIN after = DOMAIN before
                   /\ \A k \in DOMAIN before :
                       /\ after[k].modelId = before[k].modelId
                       /\ after[k].totalScore = before[k].totalScore
                       /\ \A j \in DOMAIN before[k].criteriaBreakdown :
                              /\ after[k].criteriaBreakdown[j].criterionId =
                                     before[k].criteriaBreakdown[j].criterionId
                              /\ after[k].criteriaBreakdown[j].maxScore =
                                     before[k].criteriaBreakdown[j].maxScore
                              /\ after[k].criteriaBreakdown[j].weight =
                                     before[k].criteriaBreakdown[j].weight
                              /\ after[k].criteriaBreakdown[j].avgNormalized =
                                     before[k].criteriaBreakdown[j].avgNormalized
                              /\ after[k].criteriaBreakdown[j].weightedAvg =
                                     before[k].criteriaBreakdown[j].weightedAvg]_vars

\* C11: computeResults of a run id that is not in Runs fails with 'Run <id> not
\* found' whatever the session id is (a session of a run, or an id of no
\* session), and leaves the store as it was
C11_MissingRunNotFound ==
    [][(returned'.op = "computeResults" /\ returned'.runId \notin DOMAIN Runs)
          => /\ returned'.out = [ok |-> FALSE, error |-> RunNotFound(returned'.runId)]
             /\ store' = store]_vars

\* computeResults has failed for a missing run and the session of another run,
\* in which scores are recorded
C11_Witness ==
    /\ returned.op = "computeResults"
    /\ returned.runId \notin DOMAIN Runs
    /\ returned.sessionId \in DOMAIN ScoringSessions
    /\ \E i \in DOMAIN Scores : Scores[i].sessionId = returned.sessionId
    /\ ~returned.out.ok

\* The Scores of a session on the Responses of a run
ScoresOn(runId, sessionId) ==
    {i \in DOMAIN Scores :
        /\ Scores[i].sessionId = sessionId
        /\ \E r \in Responses : r.id = Scores[i].responseId /\ r.runId = runId}

\* C12: computeResults of a run that exists, for a session with no Score on a
\* Response of that run (a session without scores, or an id of no session),
\* returns the run's id, the given session id, the run's prompt and an empty
\* rankedModels
C12_NoScoresEmptyRanking ==
    [][(/\ returned'.op = "computeResults"
        /\ returned'.runId \in DOMAIN Runs
        /\ ScoresOn(returned'.runId, returned'.sessionId) = {})
          => returned'.out = [ok           |-> TRUE,
                              runId        |-> returned'.runId,
                              sessionId    |-> returned'.sessionId,
                              prompt       |-> Runs[returned'.runId].prompt,
                              rankedModels |-> <<>>]]_vars

\* An empty ranking was returned for an id of no session while the run's
\* responses have scores in a session
C12_Witness ==
    /\ returned.op = "computeResults"
    /\ returned.runId \in DOMAIN Runs
    /\ returned.sessionId \notin DOMAIN ScoringSessions
    /\ \E sessionId \in DOMAIN ScoringSessions : ScoresOn(returned.runId, sessionId) # {}
    /\ returned.out.ok
    /\ returned.out.rankedModels = <<>>

\* x is the number n / d (n, d >= 0) as JavaScript computes it
IsQuotient(x, n, d) ==
    IF d = 0 THEN x = (IF n > 0 THEN Infinity ELSE NaN)
    ELSE x[2] > 0 /\ x[1] * d = x[2] * n

\* The sum of the numbers of a sequence over their common denominator
RECURSIVE SumOverCommon(_)
SumOverCommon(xs) ==
    IF xs = <<>> THEN <<0, 1>>
    ELSE LET rest == SumOverCommon(Tail(xs))
         IN  <<Head(xs)[1] * rest[2] + rest[1] * Head(xs)[2], Head(xs)[2] * rest[2]>>

IsSum(x, xs) ==
    IF NaN \in Range(xs) THEN x = NaN
    ELSE IF Infinity \in Range(xs) THEN x = Infinity
    ELSE IsQuotient(x, SumOverCommon(xs)[1], SumOverCommon(xs)[2])

\* The Scores of a session on the Responses of a run by a model, for a criterion
GroupOf(runId, sessionId, modelId, criterionId) ==
    {i \in ScoresOn(runId, sessionId) :
        /\ ResponseById(Scores[i].responseId).modelId = modelId
        /\ Scores[i].criterionId = criterionId}

RECURSIVE SumOfScores(_)
SumOfScores(I) ==
    IF I = {} THEN 0
    ELSE LET i == CHOOSE j \in I : TRUE IN Scores[i].score + SumOfScores(I \ {i})

\* C13: in every ModelResult that computeResults returns, each criteriaBreakdown
\* entry has avgRawScore = the mean of the (model, criterion) group's raw scores,
\* avgNormalized = avgRawScore * 100 / maxScore and weightedAvg = avgNormalized *
\* weight, and totalScore is the sum of weightedAvg over exactly the entries of
\* criteriaBreakdown
C13_ScoreFormula ==
    (returned.op = "computeResults" /\ returned.out.ok) =>
        \A k \in DOMAIN returned.out.rankedModels :
            LET m == returned.out.rankedModels[k]
            IN  /\ \A j \in DOMAIN m.criteriaBreakdown :
                       LET cb == m.criteriaBreakdown[j]
                           group == GroupOf(returned.runId, returned.sessionId,
                                            m.modelId, cb.criterionId)
                           n == Cardinality(group)
                           sum == SumOfScores(group)
                           maxScore == Criteria[cb.criterionId].maxScore
                           weight == Criteria[cb.criterionId].weight
                       IN  /\ n > 0
                           /\ cb.maxScore = maxScore /\ cb.weight = weight
                           /\ IsQuotient(cb.avgRawScore, sum, n)
                           /\ IsQuotient(cb.avgNormalized, sum * 100, n * maxScore)
                           /\ IsQuotient(cb.weightedAvg, sum * 100 * weight, n * maxScore)
                /\ IsSum(m.totalScore,
                         [j \in DOMAIN m.criteriaBreakdown |->
                             m.criteriaBreakdown[j].weightedAvg])

\* A model was ranked with the scores 0 and 8 on a criterion of maxScore 10 and
\* weight 1 (mean 4, normalized 40, weighted 40) and the score 8 on a criterion of
\* maxScore 5 and weight 2 (normalized 160, weighted 320): total 360
C13_Witness ==
    /\ returned.op = "computeResults"
    /\ returned.out.ok
    /\ \E k \in DOMAIN returned.out.rankedModels :
           LET m == returned.out.rankedModels[k]
           IN  /\ Len(m.criteriaBreakdown) = 2
               /\ \E j \in DOMAIN m.criteriaBreakdown :
                      /\ m.criteriaBreakdown[j].maxScore = 10
                      /\ m.criteriaBreakdown[j].avgRawScore = <<4, 1>>
                      /\ m.criteriaBreakdown[j].avgNormalized = <<40, 1>>
                      /\ m.criteriaBreakdown[j].weightedAvg = <<40, 1>>
               /\ \E j \in DOMAIN m.criteriaBreakdown :
                      /\ m.criteriaBreakdown[j].maxScore = 5
                      /\ m.criteriaBreakdown[j].weightedAvg = <<320, 1>>
               /\ m.totalScore = <<360, 1>>

\* p >= q as JavaScript compares numbers: false when either is NaN
AtLeast(p, q) == p # NaN /\ q # NaN /\ p[1] * q[2] >= q[1] * p[2]

\* C14 (as claimed): the rankedModels that computeResults returns are in
\* descending order of totalScore: rankedModels[i].totalScore >=
\* rankedModels[j].totalScore for every i < j, so the highest total is at index 0
C14_SortedDescending ==
    (returned.op = "computeResults" /\ returned.out.ok) =>
        \A i, j \in DOMAIN returned.out.rankedModels :
            i < j => AtLeast(returned.out.rankedModels[i].totalScore,
                             returned.out.rankedModels[j].totalScore)

\* The models with a Score of the session on one of their Responses of the run
ScoredModels(runId, sessionId) ==
    {ResponseById(Scores[i].responseId).modelId : i \in ScoresOn(runId, sessionId)}

\* C15: a model is in the rankedModels that computeResults returns, and then
\* exactly once, iff the session has at least one Score on a Response of the run
\* produced by that model; a model without such a Score is absent
C15_RankedIffScored ==
    (returned.op = "computeResults" /\ returned.out.ok) =>
        LET ranked == returned.out.rankedModels
            scored == ScoredModels(returned.runId, returned.sessionId)
        IN  /\ {ranked[k].modelId : k \in DOMAIN ranked} = scored
            /\ \A modelId \in scored :
                   Cardinality({k \in DOMAIN ranked : ranked[k].modelId = modelId}) = 1

\* Two models have a Response of the run; one has two Scores in the session and
\* is ranked, the other has none and is absent
C15_Witness ==
    /\ returned.op = "computeResults"
    /\ returned.out.ok
    /\ Len(returned.out.rankedModels) = 1
    /\ Cardinality({r.modelId : r \in ResponsesOf(returned.runId)}) = 2
    /\ Cardinality(ScoresOn(returned.runId, returned.sessionId)) >= 2

C17_SessionsIndependent ==
    [][uuid'.score # uuid.score =>
          \A new \in {Scores'[Len(Scores')]} :
              \A sessionId \in DOMAIN ScoringSessions \ {new.sessionId} :
                  /\ sessionScoreRows(sessionId)' = sessionScoreRows(sessionId)
                  /\ \A runId \in DOMAIN Runs :
                         \A before \in {computeResults(runId, sessionId)},
                            after \in {rankedModels(scoreRows(runId, sessionId)')} :
                             /\ Runs'[runId] = Runs[runId]
                             /\ after = before.rankedModels]_vars

\* Two sessions of one run hold Scores on the same response and criterion, the
\* later Score in the session that was created first
C17_Witness ==
    \E i, j \in DOMAIN Scores :
        /\ i < j
        /\ Scores[i].sessionId > Scores[j].sessionId
        /\ ScoringSessions[Scores[i].sessionId].runId = ScoringSessions[Scores[j].sessionId].runId
        /\ Scores[i].responseId = Scores[j].responseId
        /\ Scores[i].criterionId = Scores[j].criterionId
        /\ Scores[i].score # Scores[j].score

\* C18: scoreResponse adds a row of its own also when the session already has a
\* Score for the same response and criterion: the rows before it stay, and
\* getSessionScores returns them all; every row of a (model, criterion) group,
\* duplicates included, enters the mean that computeResults reports
C18_DuplicatesKept ==
    [][/\ uuid'.score # uuid.score =>
              \A new \in {Scores'[Len(Scores')]} :
                  /\ Scores' = Append(Scores, new)
                  /\ new.id \notin {Scores[i].id : i \in DOMAIN Scores}
                  /\ sessionScoreRows(new.sessionId)' =
                         Append(sessionScoreRows(new.sessionId), new)
       /\ (returned'.op = "computeResults" /\ returned'.out.ok) =>
              \A k \in DOMAIN returned'.out.rankedModels :
                  \A j \in DOMAIN returned'.out.rankedModels[k].criteriaBreakdown :
                      \A group \in {GroupOf(returned'.runId, returned'.sessionId,
                                            returned'.out.rankedModels[k].modelId,
                                            returned'.out.rankedModels[k].criteriaBreakdown[j].criterionId)} :
                          IsQuotient(returned'.out.rankedModels[k].criteriaBreakdown[j].avgRawScore,
                                     SumOfScores(group), Cardinality(group))]_vars

\* A session holds the Scores 0 and 8 for the same response and criterion, and
\* computeResults has reported their mean 4
C18_Witness ==
    /\ returned.op = "computeResults"
    /\ returned.out.ok
    /\ \E i, j \in DOMAIN sessionScoreRows(returned.sessionId) :
           LET a == sessionScoreRows(returned.sessionId)[i]
               b == sessionScoreRows(returned.sessionId)[j]
           IN  /\ i < j
               /\ a.id # b.id
               /\ a.responseId = b.responseId
               /\ a.criterionId = b.criterionId
               /\ a.score # b.score
               /\ Len(sessionScoreRows(returned.sessionId)) = 2
               /\ \E k \in DOMAIN returned.out.rankedModels :
                      /\ returned.out.rankedModels[k].modelId = ResponseById(a.responseId).modelId
                      /\ returned.out.rankedModels[k].criteriaBreakdown[1].avgRawScore = <<4, 1>>

\* C19 (as claimed): the pool of a scoring flow is exactly the Responses of the
\* run that getRun returned whose error field is null: a Response of a failed
\* call, whatever its message (the empty one too), is not in it, and every
\* Response with a null error is
C19_PoolIsNullErrorResponses ==
    scoring.flow = "scoring" =>
        Range(scoring.responses) = {r \in scoring.run.responses : r.errorMsg = NULL}

\* C20: the shuffled pool of a scoring flow is a permutation of the pool before
\* the shuffle (the same ids, each as many times: once), and starting a flow,
\* any number of times, changes no Response row
C20_ShuffleIsPermutation ==
    [][scoring' # scoring =>
          /\ Responses' = Responses
          /\ scoring'.flow = "scoring" =>
                 \A valid \in {scoreable(scoring'.run.responses)} :
                     /\ Len(scoring'.responses) = Cardinality(valid)
                     /\ \A r \in valid :
                            Cardinality({i \in DOMAIN scoring'.responses :
                                            scoring'.responses[i].id = r.id}) = 1
                     /\ Range(scoring'.responses) = valid]_vars

\* A second flow has started on the run; its pool holds the run's two
\* responses, the one of the second model first
C20_Witness ==
    /\ scoring.flow = "scoring"
    /\ scoring.sessionId = 2
    /\ Len(scoring.responses) = 2
    /\ scoring.responses[1].modelId > scoring.responses[2].modelId

\* C21 (as claimed): every score that a scoring flow (TUI or web) hands to
\* scoreResponse lies in [0, maxScore] of the criterion it scores
C21_SubmittedScoreInRange ==
    [][uuid'.score # uuid.score =>
          \A new \in {Scores'[Len(Scores')]} :
              /\ 0 <= new.score
              /\ new.score <= Criteria[new.criterionId].maxScore]_vars

\* Two runs that differ only in which model produced which response: the model
\* ids of the one are those of the other under a bijection of the models
ModelRelabelings ==
    {pi \in [1..MaxModels -> 1..MaxModels] :
        \A a, b \in 1..MaxModels : a # b => pi[a] # pi[b]}

\* The Response objects that a scoring flow holds before it is done: those of
\* getRunForScoring's return value, then the shuffled pool
HandedToScorer ==
    CASE scoring.flow = "loading" -> scoring.runData.responses
      [] scoring.flow = "scoring" -> Range(scoring.responses)
      [] OTHER -> {}

\* C22 (as claimed): the Response data handed to a scoring flow is the same for
\* two runs that differ only in which model produced which response: no field
\* of a handed Response changes when the models are relabelled
C22_HandedDataHidesModel ==
    \A r \in HandedToScorer : \A pi \in ModelRelabelings :
        [r EXCEPT !.modelId = pi[@]] = r

\* The spellings of a provider name that differ from it in letter case only
Spellings(name) ==
    CASE name = "openai"    -> {"openai", "OpenAI", "OPENAI"}
      [] name = "anthropic" -> {"anthropic", "Anthropic"}
      [] name = "ollama"    -> {"ollama", "Ollama"}

C25_AccessorsInRecordingOrder ==
    /\ returned.op = "getSessionScores" =>
           returned.out = sessionScoreRows(returned.sessionId)
    /\ returned.op = "listScoringSessions" =>
           /\ Range(returned.out) = sessionRows(returned.runId)
           /\ \A i, j \in DOMAIN returned.out : i < j => returned.out[i].id > returned.out[j].id

\* Calls of invocation x that have left their await (stored or not)
Completed(x) == SumSeq(x.persisted) + SumSeq(x.lost)

\* C26 (as claimed): no adapter call of an executeRun invocation completes before
\* the invocation has issued all its R x M calls
C26_AllIssuedBeforeAnyCompletes ==
    \A e \in DOMAIN execs :
        Completed(execs[e]) > 0 => IssuedCalls(execs[e]) = CallsOf(execs[e])

\* C27: in one executeRun invocation the credential of each model is resolved
\* once, before any call of that model, and never again; whatever the resolution
\* yields (the key, null or a failure) the R calls of the model are then issued
\* with that one value (no credential for null or a failure), and executeRun
\* does not fail for it
C27_CredentialOncePerModel ==
    /\ \A e \in DOMAIN execs : \A k \in DOMAIN execs[e].models :
           /\ execs[e].inflight[k] + execs[e].persisted[k] + execs[e].lost[k] > 0 =>
                  execs[e].apiKey[k] \in {"sk", "undefined"}
           /\ execs[e].apiKey[k] # NULL => execs[e].idx >= k
    /\ [][\A e \in DOMAIN execs :
            (\/ execs'[e].apiKey # execs[e].apiKey
             \/ execs[e].pc = "awaitKey" /\ execs'[e].pc # "awaitKey"
             \/ execs[e].pc = "awaitKey" /\ execs'[e].idx # execs[e].idx) =>
                \A k \in {execs[e].idx} :
                    /\ execs[e].pc = "awaitKey"
                    /\ execs[e].apiKey[k] = NULL
                    /\ execs[e].inflight[k] + execs[e].persisted[k] + execs[e].lost[k] = 0
                    /\ execs'[e].apiKey[k] \in {"sk", "undefined"}
                    /\ \A j \in DOMAIN execs[e].models \ {k} :
                           execs'[e].apiKey[j] = execs[e].apiKey[j]
                    /\ execs'[e].inflight[k] = execs[e].requests
                    /\ execs'[e].idx \in {k, k + 1}
                    /\ execs'[e].pc = "rejected" =>
                           /\ k < Len(execs[e].models)
                           /\ execs'[e].error = getAdapter(execs[e].models[k + 1].provider).error
      ]_vars

\* C27 witness: an invocation with two requests per model has resolved although
\* the credential of a model could not be resolved; that model's two calls were
\* issued without credential and are stored
C27_Witness ==
    \E e \in DOMAIN execs : \E k \in DOMAIN execs[e].models :
        /\ execs[e].pc = "resolved"
        /\ execs[e].requests = 2
        /\ execs[e].apiKey[k] = "undefined"
        /\ execs[e].persisted[k] = 2

\* C28 (as claimed): an executeRun invocation that fails for an unknown provider
\* has issued no adapter call and has stored no Response row, at whatever
\* position of the run's models the unknown provider is
C28_UnknownProviderBeforeAnyCall ==
    \A e \in DOMAIN execs :
        (/\ execs[e].pc = "rejected"
         /\ \E k \in DOMAIN execs[e].models :
                /\ ~getAdapter(execs[e].models[k].provider).ok
                /\ execs[e].error = getAdapter(execs[e].models[k].provider).error) =>
            /\ IssuedCalls(execs[e]) = 0
            /\ \A r \in Responses : r.id[1] # e

\* executeRun invocation x has not settled
InProgress(x) == x.pc \in {"loop", "awaitKey", "awaitAll"}

\* C29 (as claimed): while an executeRun invocation of a run is in progress,
\* getRun of the run succeeds and its responses are rows of that run, each with
\* exactly one of content and errorMsg, each of a model associated with the
\* run, and at most R of them per model
C29_PartialResultsValid ==
    \A e \in DOMAIN execs :
        InProgress(execs[e]) =>
            \A runId \in {execs[e].run} :
                /\ runId \in DOMAIN Runs
                /\ \A r \in getRun(runId).responses :
                       /\ r.runId = runId
                       /\ (r.content = NULL) <=> (r.errorMsg # NULL)
                       /\ r.modelId \in getRun(runId).models
                /\ \A m \in getRun(runId).models :
                       Cardinality(ResponsesOfModel(runId, m)) <= Runs[runId].requestsPerModel

\* executeRun invocation x has settled: its promise is fulfilled or rejected
Settled(x) == x.pc \in {"resolved", "rejected"}

\* C30 (as claimed): an executeRun invocation of an existing run, all of whose
\* adapter calls settle, eventually completes; and it does not complete while a
\* call it issued has not settled (so a call that never settles keeps it pending
\* forever), the other calls being free to settle and store their Responses
C30_CompletesIffCallsSettle ==
    /\ \A e \in 1..MaxExecs :
           (e \in DOMAIN execs /\ execs[e].run \in DOMAIN Runs)
               ~> (e \in DOMAIN execs /\ Settled(execs[e]))
    /\ [](\A e \in DOMAIN execs :
            /\ Settled(execs[e]) => InFlight(execs[e]) = 0
            /\ \A k \in DOMAIN execs[e].models :
                   execs[e].inflight[k] > 0 =>
                       \A c \in Contents : ENABLED CallSucceeds(e, k, c))


\* ---------------------------------------------------------------------------
\* C31: in every reachable state the criterion of every Score belongs to the
\* criterion set of the run of the scored Response, and a ranking returned by
\* computeResults names only criteria of the run it was asked for.
C31_ScoredCriterionInRunSet ==
    /\ \A i \in DOMAIN Scores : \A r \in Responses :
           r.id = Scores[i].responseId => Scores[i].criterionId \in RunCriteriaIds(r.runId)
    /\ (returned.op = "computeResults" /\ returned.out.ok) =>
           \A k \in DOMAIN returned.out.rankedModels :
               \A j \in DOMAIN returned.out.rankedModels[k].criteriaBreakdown :
                   returned.out.rankedModels[k].criteriaBreakdown[j].criterionId
                       \in RunCriteriaIds(returned.runId)

\* The Responses of a model in a run with at least one Score in a session
ScoredInSession(runId, sessionId, modelId) ==
    {r \in Responses : /\ r.runId = runId
                       /\ r.modelId = modelId
                       /\ \E i \in DOMAIN Scores : /\ Scores[i].sessionId = sessionId
                                                   /\ Scores[i].responseId = r.id}

\* C32: for each ranked model of a computeResults result, `responses` holds each
\* Response of that model with at least one Score in the session exactly once
\* and no other Response, and an element has tokensUsed (latencyMs) exactly when
\* the stored value is not null, then with the stored value.
C32_ScoredResponsesOnce ==
    (returned.op = "computeResults" /\ returned.out.ok) =>
        \A k \in DOMAIN returned.out.rankedModels :
            \A m \in {returned.out.rankedModels[k]} :
                /\ \A r \in ScoredInSession(returned.runId, returned.sessionId, m.modelId) :
                       Cardinality({i \in DOMAIN m.responses :
                                       m.responses[i].responseId = r.id}) = 1
                /\ \A i \in DOMAIN m.responses :
                       \E r \in ScoredInSession(returned.runId, returned.sessionId,
                                                m.modelId) :
                           /\ m.responses[i].responseId = r.id
                           /\ "tokensUsed" \in DOMAIN m.responses[i]
                                  <=> r.tokensUsed # NullNumber
                           /\ r.tokensUsed # NullNumber =>
                                  m.responses[i].tokensUsed = r.tokensUsed[1]
                           /\ "latencyMs" \in DOMAIN m.responses[i]
                                  <=> r.latencyMs # NullNumber
                           /\ r.latencyMs # NullNumber =>
                                  m.responses[i].latencyMs = r.latencyMs[1]

\* A ranking of a session in which one response has two Scores and carries its
\* token count but no latency, while another response of the run has no Score
\* in that session
C32_Witness ==
    /\ returned.op = "computeResults" /\ returned.out.ok
    /\ \E k \in DOMAIN returned.out.rankedModels :
           \E r \in Responses :
               /\ returned.out.rankedModels[k].responses
                      = <<[responseId |-> r.id, content |-> "Hello!", tokensUsed |-> 5]>>
               /\ Cardinality({i \in DOMAIN Scores :
                                  /\ Scores[i].sessionId = returned.sessionId
                                  /\ Scores[i].responseId = r.id}) = 2
    /\ \E r \in Responses :
           /\ r.runId = returned.runId
           /\ \A i \in DOMAIN Scores :
                  Scores[i].responseId = r.id => Scores[i].sessionId # returned.sessionId
           /\ \E i \in DOMAIN Scores : Scores[i].responseId = r.id

\* The handles that are open
OpenHandles == {h \in DOMAIN database.handles : database.handles[h].open}

\* C33: at most one handle is open, and it is the one in `db`; openDatabase
\* with a handle open returns that handle whatever its path argument and
\* creates none; getDatabase throws 'Database not initialized' exactly when no
\* handle is open; openDatabase with no handle open, when it returns, returns a
\* handle that did not exist before and is open.
C33_HandleLifecycle ==
    /\ [](/\ Cardinality(OpenHandles) <= 1
          /\ OpenHandles = {database.db} \ {0}
          /\ returned.op = "getDatabase" =>
                 IF OpenHandles = {}
                 THEN ~returned.ok /\ returned.error = NotInitialized
                 ELSE returned.ok /\ returned.out \in OpenHandles)
    /\ [][returned'.op = "openDatabase" =>
             IF OpenHandles # {}
             THEN /\ returned'.ok
                  /\ returned'.out \in OpenHandles
                  /\ database' = database
             ELSE returned'.ok =>
                      /\ returned'.out \notin DOMAIN database.handles
                      /\ returned'.out \in DOMAIN database'.handles
                      /\ database'.handles[returned'.out].open
                      /\ database'.db = returned'.out]_vars

\* openDatabase(':memory:') after a closeDatabase and a second openDatabase():
\* it returned the second handle, on the default path, and the first is closed
C33_Witness ==
    /\ returned.op = "openDatabase"
    /\ returned.dbPath = ":memory:"
    /\ returned.out = 2
    /\ database.handles = <<[path |-> DefaultDbPath, open |-> FALSE],
                            [path |-> DefaultDbPath, open |-> TRUE]>>

\* C34: every decrypt of a value that encrypt returned gives back the plaintext
\* that was encrypted, whatever the interleaving of the calls.
C34_RoundTrip ==
    \A c \in DOMAIN encryption.calls :
        (encryption.calls[c].op = "decrypt" /\ encryption.calls[c].pc = "done") =>
            /\ encryption.calls[c].ok
            /\ encryption.calls[c].out = encryption.calls[c].arg.plaintext

\* C35: a createRun that throws while storing its association rows leaves no
\* Run row and no association row behind: the store is as it was before.
C35_CreateRunAllOrNothing ==
    [][uuid'.run # uuid.run =>
          \A input \in RunInputs :
              (~CreateRunReturns(input) /\ CreateRun(input)) =>
                  UNCHANGED <<Runs, RunModels, RunCriteria>>]_vars

\* C36: in every reachable state the Response of every Score belongs to the run
\* of the Score's session, and a ranking returned by computeResults(A, s) with
\* a ranked model is one of a session created for run A.
C36_ScoreInSessionOfItsRun ==
    /\ \A i \in DOMAIN Scores : \A r \in Responses :
           r.id = Scores[i].responseId =>
               /\ Scores[i].sessionId \in DOMAIN ScoringSessions
               /\ ScoringSessions[Scores[i].sessionId].runId = r.runId
    /\ (returned.op = "computeResults" /\ returned.out.ok
            /\ returned.out.rankedModels # <<>>) =>
           /\ returned.sessionId \in DOMAIN ScoringSessions
           /\ ScoringSessions[returned.sessionId].runId = returned.runId


\* The Scores of a session on a response for a criterion
ScoresOfPair(sessionId, responseId, criterionId) ==
    {i \in DOMAIN Scores : /\ Scores[i].sessionId = sessionId
                           /\ Scores[i].responseId = responseId
                           /\ Scores[i].criterionId = criterionId}

\* C37: in a session driven by a scoring flow no response has two Scores for
\* one criterion, and when the flow is done every response of its pool has
\* exactly one Score for every criterion of its run.
C37_FlowsScoreEachPairOnce ==
    /\ \A i, j \in DOMAIN Scores :
           (/\ Scores[i].sessionId = Scores[j].sessionId
            /\ Scores[i].responseId = Scores[j].responseId
            /\ Scores[i].criterionId = Scores[j].criterionId) => i = j
    /\ scoring.flow = "done" =>
           \A r \in Range(scoring.responses) : \A k \in DOMAIN scoring.run.criteria :
               Cardinality(ScoresOfPair(scoring.sessionId, r.id,
                                        scoring.run.criteria[k].id)) = 1

\* A web flow that is done after the saves of two clicks, one per response
C37_Witness ==
    /\ scoring.flow = "done"
    /\ scoring.ui = "web"
    /\ Len(scoring.responses) = 2
    /\ Len(scoring.run.criteria) = 1
    /\ Len(Scores) = 2

====
